---- MODULE Spec2Model ----
(***************************************************************************)
(* Model of internal/repo/github_service.go: the service constructor, the  *)
(* paginated repository discovery, the two per-repository operations and   *)
(* the two bounded concurrent batch operations built on them.              *)
(*                                                                         *)
(* Repository names, prefixes and the owner are sequences of one-character *)
(* strings so that strings.HasPrefix is computed, not assumed.  A Go slice *)
(* is a record [isnil, elems]: a nil slice and an empty non-nil slice are  *)
(* different values.  A Go error is a sequence of frames, outermost first; *)
(* the nil error is the empty sequence.  Logging changes no state and is   *)
(* left out.                                                               *)
(***************************************************************************)
EXTENDS Integers, Sequences, FiniteSets, Bags, TLC

\* ---------------------------------------------------------------- bounds
MaxRepos == 3      \* most repositories an upstream listing holds
MaxPages == 2      \* most pages an upstream listing is split into
MaxConc  == 2      \* largest concurrency limit a batch run is given explicitly
MaxReq   == 60     \* the constructor is tried on the limits -MaxReq .. MaxReq

\* ------------------------------------------------------- program constants
defaultConcurrency == 10

\* ------------------------------------------------------------ input sets
Owner == <<"a", "c">>
NameSet == { <<"t", "a">>, <<"T", "a">> }
PrefixSet == { <<>>, <<"t">>, <<"t", "a", "b">> }
ReqConcSet == 0 .. MaxConc
ReqSet == (0 - MaxReq) .. MaxReq

\* ------------------------------------------------------ slices and errors
NilSlice == [isnil |-> TRUE, elems |-> <<>>]

SliceAppend(s, x) == [isnil |-> FALSE, elems |-> Append(s.elems, x)]

SliceLen(s) == Len(s.elems)

NilErr == <<>>

Frame(f, a) == [fmt |-> f, args |-> a]

\* fmt.Errorf(f + ": %w", args..., cause)
Errorf(f, a, cause) == <<Frame(f, a)>> \o cause

\* an error produced by the HTTP client library
UpstreamErr(what) == <<Frame(what, <<>>)>>

\* mutation: an empty prefix matches nothing
HasPrefixNonEmpty(s, prefix) ==
    /\ Len(prefix) > 0
    /\ Len(s) >= Len(prefix)
    /\ \A k \in 1 .. Len(prefix) : s[k] = prefix[k]

\* strings.HasPrefix(s, prefix)
HasPrefix(s, prefix) ==
    /\ Len(s) >= Len(prefix)
    /\ \A k \in 1 .. Len(prefix) : s[k] = prefix[k]

\* ------------------------------------------------------------ constructor
\* mutation: only a negative limit is replaced by the default
NewGitHubServiceNegativeOnly(n) ==
    [maxConcurrency |-> IF n < 0 THEN defaultConcurrency ELSE n]

NewGitHubServiceWithLogger(n) ==
    [maxConcurrency |-> IF n <= 0 THEN defaultConcurrency ELSE n]

\* -------------------------------------------------------------- discovery
\* An upstream listing: its pages in order, and the page whose request
\* fails (0: none fails).
RECURSIVE Flatten(_)
Flatten(ps) == IF Len(ps) = 0 THEN <<>> ELSE Head(ps) \o Flatten(Tail(ps))

NameSeqs(n) == UNION { [1 .. k -> NameSet] : k \in 0 .. n }

PageSeqs ==
    { ps \in UNION { [1 .. k -> NameSeqs(MaxRepos)] : k \in 1 .. MaxPages } :
        Len(Flatten(ps)) <= MaxRepos }

Upstreams ==
    UNION { { [pages |-> ps, failAt |-> f] : f \in 0 .. Len(ps) } : ps \in PageSeqs }

\* client.Repositories.ListByUser / ListByOrg: the answer of the upstream to
\* the request for one page.  Page 0 (the zero value of opts.Page) asks for
\* the first page; NextPage is 0 on the last page.
ListRepos(up, page) ==
    LET p == IF page = 0 THEN 1 ELSE page IN
    IF up.failAt = p
    THEN [repos |-> <<>>, NextPage |-> 0, err |-> UpstreamErr("listing failed")]
    ELSE [repos |-> IF p <= Len(up.pages) THEN up.pages[p] ELSE <<>>,
          NextPage |-> IF p < Len(up.pages) THEN p + 1 ELSE 0,
          err |-> NilErr]

\* the inner loop: append the repositories of one page that match
RECURSIVE MatchPage(_, _, _)
MatchPage(matchingRepos, repos, prefix) ==
    IF Len(repos) = 0 THEN matchingRepos
    ELSE MatchPage(IF HasPrefix(Head(repos), prefix)
                   THEN SliceAppend(matchingRepos, Head(repos))
                   ELSE matchingRepos,
                   Tail(repos), prefix)

\* the outer loop of getUserRepositoriesWithPrefix; requested is the list of
\* page numbers asked for so far
RECURSIVE UserLoop(_, _, _, _, _, _)
UserLoop(up, owner, prefix, page, matchingRepos, requested) ==
    LET r == ListRepos(up, page)
        req == Append(requested, page)
    IN IF r.err # NilErr
       THEN [repos |-> NilSlice,
             err |-> Errorf("failed to list repositories for user %s", <<owner>>, r.err),
             requested |-> req]
       ELSE LET m == MatchPage(matchingRepos, r.repos, prefix)
            IN IF r.NextPage = 0
               THEN [repos |-> m, err |-> NilErr, requested |-> req]
               ELSE UserLoop(up, owner, prefix, r.NextPage, m, req)

\* mutation: when a page fails, the matches of the pages before it are
\* returned with the error
getUserRepositoriesKeepsPartial(up, owner, prefix) ==
    LET r == UserLoop(up, owner, prefix, 0, NilSlice, <<>>)
        before == [pages |-> SubSeq(up.pages, 1, up.failAt - 1), failAt |-> 0]
    IN IF r.err = NilErr THEN r
       ELSE [r EXCEPT !.repos = UserLoop(before, owner, prefix, 0, NilSlice, <<>>).repos]

getUserRepositoriesWithPrefix(up, owner, prefix) ==
    UserLoop(up, owner, prefix, 0, NilSlice, <<>>)

\* the outer loop of getOrgRepositoriesWithPrefix
RECURSIVE OrgLoop(_, _, _, _, _, _)
OrgLoop(up, owner, prefix, page, matchingRepos, requested) ==
    LET r == ListRepos(up, page)
        req == Append(requested, page)
    IN IF r.err # NilErr
       THEN [repos |-> NilSlice,
             err |-> Errorf("failed to list repositories for org %s", <<owner>>, r.err),
             requested |-> req]
       ELSE LET m == MatchPage(matchingRepos, r.repos, prefix)
            IN IF r.NextPage = 0
               THEN [repos |-> m, err |-> NilErr, requested |-> req]
               ELSE OrgLoop(up, owner, prefix, r.NextPage, m, req)

\* mutation: the loop stops after the first page
getOrgRepositoriesFirstPageOnly(up, owner, prefix) ==
    LET r == ListRepos(up, 0) IN
    IF r.err # NilErr
    THEN [repos |-> NilSlice,
          err |-> Errorf("failed to list repositories for org %s", <<owner>>, r.err),
          requested |-> <<0>>]
    ELSE [repos |-> MatchPage(NilSlice, r.repos, prefix), err |-> NilErr,
          requested |-> <<0>>]

getOrgRepositoriesWithPrefix(up, owner, prefix) ==
    OrgLoop(up, owner, prefix, 0, NilSlice, <<>>)

GetRepositoriesWithPrefix(up, owner, prefix, isUser) ==
    IF isUser
    THEN getUserRepositoriesWithPrefix(up, owner, prefix)
    ELSE getOrgRepositoriesWithPrefix(up, owner, prefix)

\* ------------------------------------------------- issue statistics (one repo)
\* What the upstream holds for one repository: whether Repositories.Get
\* finds it, its issues page by page, and the issue page whose request
\* fails (0: none).  An issue has a state and is a pull request or not.
Issue(st, isPR) == [state |-> st, pr |-> isPR]

IssueUpstreams ==
    { [exists |-> FALSE, pages |-> << <<>> >>, failAt |-> 0],
      [exists |-> TRUE,
       pages |-> << <<Issue("open", FALSE)>>, <<Issue("closed", TRUE)>> >>,
       failAt |-> 0] }

\* the same repository with the request for its second page of issues failing
IssueListFailure ==
    [exists |-> TRUE,
     pages |-> << <<Issue("open", FALSE)>>, <<Issue("closed", TRUE)>> >>,
     failAt |-> 2]

\* what the upstream may hold for the i-th repository of a batch; a failing
\* issue listing is tried on the first repository only
BatchIssueUpstreams(i) ==
    IF i = 1 THEN IssueUpstreams \cup {IssueListFailure} ELSE IssueUpstreams

\* client.Issues.ListByRepo
ListByRepo(up, page) ==
    LET p == IF page = 0 THEN 1 ELSE page IN
    IF up.failAt = p
    THEN [issues |-> <<>>, NextPage |-> 0, err |-> UpstreamErr("issues failed")]
    ELSE [issues |-> IF p <= Len(up.pages) THEN up.pages[p] ELSE <<>>,
          NextPage |-> IF p < Len(up.pages) THEN p + 1 ELSE 0,
          err |-> NilErr]

\* mutation: the state is compared without regard to case
CountIssueIgnoresCase(stats, issue) ==
    IF issue.pr THEN stats
    ELSE IF issue.state \in {"open", "Open"}
         THEN [stats EXCEPT !.TotalIssues = @ + 1, !.OpenIssues = @ + 1]
         ELSE [stats EXCEPT !.TotalIssues = @ + 1, !.ClosedIssues = @ + 1]

\* mutation: a pull request is counted in the total
CountIssueCountsPR(stats, issue) ==
    IF issue.pr THEN [stats EXCEPT !.TotalIssues = @ + 1]
    ELSE IF issue.state = "open"
         THEN [stats EXCEPT !.TotalIssues = @ + 1, !.OpenIssues = @ + 1]
         ELSE [stats EXCEPT !.TotalIssues = @ + 1, !.ClosedIssues = @ + 1]

\* one iteration of the inner loop: a pull request is skipped, any other
\* entry is counted as open when its state is "open" and as closed otherwise
CountIssue(stats, issue) ==
    IF issue.pr THEN stats
    ELSE IF issue.state = "open"
         THEN [stats EXCEPT !.TotalIssues = @ + 1, !.OpenIssues = @ + 1]
         ELSE [stats EXCEPT !.TotalIssues = @ + 1, !.ClosedIssues = @ + 1]

\* the inner loop over the issues of one page
RECURSIVE CountPage(_, _)
CountPage(stats, issues) ==
    IF Len(issues) = 0 THEN stats
    ELSE CountPage(CountIssue(stats, Head(issues)), Tail(issues))

NoStats == [RepoName |-> <<>>, TotalIssues |-> 0 - 1, OpenIssues |-> 0 - 1,
            ClosedIssues |-> 0 - 1]

RECURSIVE IssueLoop(_, _, _, _, _)
IssueLoop(up, owner, repoName, page, stats) ==
    LET r == ListByRepo(up, page) IN
    IF r.err # NilErr
    THEN [stats |-> NoStats, isnil |-> TRUE,
          err |-> Errorf("failed to list issues for %s/%s", <<owner, repoName>>, r.err)]
    ELSE LET s1 == CountPage(stats, r.issues)
         IN IF r.NextPage = 0
            THEN [stats |-> s1, isnil |-> FALSE, err |-> NilErr]
            ELSE IssueLoop(up, owner, repoName, r.NextPage, s1)

\* mutation: when a page of issues fails, the counts of the pages before it
\* are returned with the error
GetIssueStatsForRepoKeepsPartial(up, owner, repoName) ==
    IF ~up.exists
    THEN [stats |-> NoStats, isnil |-> TRUE,
          err |-> Errorf("failed to get repository %s/%s", <<owner, repoName>>,
                         UpstreamErr("404 Not Found"))]
    ELSE LET zero == [RepoName |-> repoName, TotalIssues |-> 0, OpenIssues |-> 0,
                      ClosedIssues |-> 0]
             r == IssueLoop(up, owner, repoName, 0, zero)
         IN IF r.err = NilErr THEN r
            ELSE [stats |-> CountPage(zero, Flatten(SubSeq(up.pages, 1, up.failAt - 1))),
                  isnil |-> FALSE, err |-> r.err]

\* GetIssueStatsForRepo returns (*IssueStats, error); isnil says that the
\* pointer is nil
GetIssueStatsForRepo(up, owner, repoName) ==
    IF ~up.exists
    THEN [stats |-> NoStats, isnil |-> TRUE,
          err |-> Errorf("failed to get repository %s/%s", <<owner, repoName>>,
                         UpstreamErr("404 Not Found"))]
    ELSE IssueLoop(up, owner, repoName, 0,
                   [RepoName |-> repoName, TotalIssues |-> 0, OpenIssues |-> 0,
                    ClosedIssues |-> 0])

\* ------------------------------------------------------ file upsert (one repo)
\* What the upstream answers to the two calls of one upsert: the read
\* (GetContents) finds the file with a SHA, answers 404, fails with another
\* status, or fails without any response; the write (CreateFile) succeeds
\* or fails.
FileUpstreams ==
    { [read |-> "found", sha |-> "s1", writeOk |-> TRUE],
      [read |-> "notfound", sha |-> "", writeOk |-> FALSE] }

CodeownersPath == <<".github/CODEOWNERS">>

StatusNotFound == 404

\* Repositories.GetContents: the file with its SHA, or an error that comes
\* with a response (404 or another status) or with none
GetContents(up) ==
    CASE up.read = "found" ->
           [err |-> NilErr, hasResp |-> TRUE, StatusCode |-> 200, SHA |-> <<up.sha>>]
      [] up.read = "notfound" ->
           [err |-> UpstreamErr("404 Not Found"), hasResp |-> TRUE,
            StatusCode |-> StatusNotFound, SHA |-> <<>>]
      [] up.read = "error" ->
           [err |-> UpstreamErr("500 Internal Server Error"), hasResp |-> TRUE,
            StatusCode |-> 500, SHA |-> <<>>]
      [] OTHER ->
           [err |-> UpstreamErr("connection refused"), hasResp |-> FALSE,
            StatusCode |-> 0, SHA |-> <<>>]

\* mutation: the error of the write is dropped
CreateOrUpdateFileIgnoresWriteErr(up, owner, repoName, filePath) ==
    LET r == GetContents(up)
    IN IF r.err # NilErr /\ ~(r.hasResp /\ r.StatusCode = StatusNotFound)
       THEN [err |-> Errorf("failed to check if file exists %s/%s:%s",
                            <<owner, repoName, filePath>>, r.err),
             writes |-> <<>>, committed |-> FALSE]
       ELSE [err |-> NilErr, writes |-> << [sha |-> r.SHA] >>,
             committed |-> up.writeOk]

\* CreateOrUpdateFile returns an error; writes lists the CreateFile calls
\* made, each with the SHA it carried (<<>> for a nil SHA), and committed
\* says that the upstream committed the file
CreateOrUpdateFile(up, owner, repoName, filePath) ==
    LET r == GetContents(up)
    IN IF r.err # NilErr /\ ~(r.hasResp /\ r.StatusCode = StatusNotFound)
       THEN [err |-> Errorf("failed to check if file exists %s/%s:%s",
                            <<owner, repoName, filePath>>, r.err),
             writes |-> <<>>, committed |-> FALSE]
       ELSE [err |-> IF up.writeOk THEN NilErr
                     ELSE Errorf("failed to create/update file %s/%s:%s",
                                 <<owner, repoName, filePath>>,
                                 UpstreamErr("write failed")),
             writes |-> << [sha |-> r.SHA] >>,
             committed |-> up.writeOk]

\* ------------------------------------------------------------------ state
VARIABLES
    pc,              \* where the calling goroutine is
    requested,       \* the concurrency limit passed to the constructor
    maxConcurrency,  \* gitHubService.maxConcurrency
    method,          \* the batch method called: "stats" or "codeowners"
    repos,           \* the slice returned by discovery inside the batch call
    idx,             \* position of the dispatch loop in repos (1-based)
    sem,             \* number of tokens in the sem channel
    workers,         \* the goroutines launched, in launch order
    statsChan, errChan,       \* result channels of GetIssueStatsForReposWithPrefix
    successChan, failChan,    \* result channels of AddCodeownersToReposWithPrefix
    allStats, successRepos, failedRepos,   \* the collector's slices
    received,        \* iterations of the collector loop completed
    ret,             \* the values returned by the batch call
    disc,            \* a stand-alone discovery call: its inputs and its result
    iss,             \* a stand-alone GetIssueStatsForRepo call, step by step
    fil,             \* a stand-alone CreateOrUpdateFile call, step by step
    cmd              \* one run of a subcommand, step by step

vars == <<pc, requested, maxConcurrency, method, repos, idx, sem, workers,
          statsChan, errChan, successChan, failChan,
          allStats, successRepos, failedRepos, received, ret, disc, iss, fil, cmd>>

batchVars == <<pc, requested, maxConcurrency, method, repos, idx, sem, workers,
               statsChan, errChan, successChan, failChan,
               allStats, successRepos, failedRepos, received, ret>>

NoRet == [stats |-> NilSlice, success |-> NilSlice, failed |-> NilSlice, err |-> NilErr]

NoDisc == [pc |-> "idle", up |-> [pages |-> << <<>> >>, failAt |-> 0],
           prefix |-> <<>>, isUser |-> FALSE,
           out |-> [repos |-> NilSlice, err |-> NilErr, requested |-> <<>>]]

\* no stand-alone GetIssueStatsForRepo call is made
NoIss == [pc |-> "idle", up |-> [exists |-> FALSE, pages |-> << <<>> >>, failAt |-> 0],
          repoName |-> <<>>, page |-> 0, issues |-> <<>>, NextPage |-> 0,
          stats |-> NoStats, isnil |-> TRUE, err |-> NilErr,
          gets |-> 0, lists |-> <<>>]

\* no stand-alone CreateOrUpdateFile call is made
NoFil == [pc |-> "idle", up |-> [read |-> "found", sha |-> "s1", writeOk |-> TRUE],
          repoName |-> <<>>, content |-> "", sha |-> <<>>, err |-> NilErr,
          reads |-> 0, writes |-> <<>>, commits |-> 0, cur |-> <<>>]

\* a subcommand before it runs: no flag given, nothing done
NoFlags == [org |-> "", username |-> "", repoName |-> "", repoPrefix |-> "",
            token |-> "", fileSet |-> FALSE, codeownersFile |-> ""]

NoCmd == [pc |-> "idle", name |-> "get-issue-count", flags |-> NoFlags,
          env |-> "", fileOk |-> FALSE, token |-> "", owner |-> "",
          isUser |-> FALSE, client |-> "none", calls |-> <<>>,
          allStats |-> NilSlice, batch |-> <<>>, out |-> <<>>, log |-> <<>>,
          err |-> ""]

M == Len(repos.elems)

\* mutation: the result channels are as large as the semaphore
ChanCapPerSlot == maxConcurrency

\* the capacity of each result channel: make(chan ..., len(repos))
ChanCap == M

InitBatch ==
    /\ pc = "new"
    /\ requested = 0
    /\ maxConcurrency = 0
    /\ method = "none"
    /\ repos = NilSlice
    /\ idx = 1
    /\ sem = 0
    /\ workers = <<>>
    /\ statsChan = <<>>
    /\ errChan = <<>>
    /\ successChan = <<>>
    /\ failChan = <<>>
    /\ allStats = NilSlice
    /\ successRepos = NilSlice
    /\ failedRepos = NilSlice
    /\ received = 0
    /\ ret = NoRet

Init == InitBatch /\ disc = NoDisc /\ iss = NoIss /\ fil = NoFil /\ cmd = NoCmd

\* ------------------------------------------------------------ constructor
New ==
    /\ pc = "new"
    /\ \E n \in ReqConcSet :
        /\ requested' = n
        /\ maxConcurrency' = NewGitHubServiceWithLogger(n).maxConcurrency
    /\ pc' = "ready"
    /\ UNCHANGED <<method, repos, idx, sem, workers, statsChan, errChan,
                   successChan, failChan, allStats, successRepos, failedRepos,
                   received, ret, disc, iss, fil, cmd>>

\* mutation: an empty discovery returns an empty, non-nil slice
StatsEmptyReturnEmptySlice ==
    [NoRet EXCEPT !.stats = [isnil |-> FALSE, elems |-> <<>>], !.err = NilErr]

\* ------------------------------------- GetIssueStatsForReposWithPrefix
\* the value returned for an empty discovery
StatsEmptyReturn == [NoRet EXCEPT !.stats = NilSlice, !.err = NilErr]

\* discovery, the empty check and the creation of the channels
StatsCall ==
    /\ pc = "ready"
    /\ method' = "stats"
    /\ \E up \in Upstreams, prefix \in PrefixSet, isUser \in BOOLEAN :
        LET d == GetRepositoriesWithPrefix(up, Owner, prefix, isUser) IN
        /\ repos' = d.repos
        /\ IF d.err # NilErr
           THEN /\ ret' = [NoRet EXCEPT !.err = d.err]
                /\ pc' = "returned"
           ELSE IF SliceLen(d.repos) = 0
           THEN /\ ret' = StatsEmptyReturn
                /\ pc' = "returned"
           ELSE /\ ret' = ret
                /\ pc' = "acquire"
    /\ allStats' = NilSlice
    /\ statsChan' = <<>>
    /\ errChan' = <<>>
    /\ sem' = 0
    /\ idx' = 1
    /\ UNCHANGED <<requested, maxConcurrency, workers, successChan, failChan,
                   successRepos, failedRepos, received, disc, iss, fil, cmd>>

\* mutation: the semaphore is sized to the batch, not to maxConcurrency
StatsAcquireBatchSized ==
    /\ pc = "acquire"
    /\ method = "stats"
    /\ sem < M
    /\ sem' = sem + 1
    /\ pc' = "go"
    /\ UNCHANGED <<requested, maxConcurrency, method, repos, idx, workers,
                   statsChan, errChan, successChan, failChan, allStats,
                   successRepos, failedRepos, received, ret, disc, iss, fil, cmd>>

\* sem <- struct{}{} blocks while the channel holds maxConcurrency tokens
StatsAcquire ==
    /\ pc = "acquire"
    /\ method = "stats"
    /\ sem < maxConcurrency
    /\ sem' = sem + 1
    /\ pc' = "go"
    /\ UNCHANGED <<requested, maxConcurrency, method, repos, idx, workers,
                   statsChan, errChan, successChan, failChan, allStats,
                   successRepos, failedRepos, received, ret, disc, iss, fil, cmd>>

\* a goroutine as launched: nothing called yet, no result yet
StatsWorker(repoName) ==
    [st |-> "started", repoName |-> repoName, calls |-> 0,
     res |-> [stats |-> NoStats, isnil |-> TRUE, err |-> NilErr]]

\* mutation: the goroutine reads the loop's last repository, not its argument
StatsGoSharedLoopVar ==
    /\ pc = "go"
    /\ method = "stats"
    /\ workers' = Append(workers, StatsWorker(repos.elems[M]))
    /\ idx' = idx + 1
    /\ pc' = IF idx + 1 > M THEN "collect" ELSE "acquire"
    /\ UNCHANGED <<requested, maxConcurrency, method, repos, sem,
                   statsChan, errChan, successChan, failChan, allStats,
                   successRepos, failedRepos, received, ret, disc, iss, fil, cmd>>

\* go func(repoName string) {...}(repo.GetName()), and the loop moves on
StatsGo ==
    /\ pc = "go"
    /\ method = "stats"
    /\ workers' = Append(workers, StatsWorker(repos.elems[idx]))
    /\ idx' = idx + 1
    /\ pc' = IF idx + 1 > M THEN "collect" ELSE "acquire"
    /\ UNCHANGED <<requested, maxConcurrency, method, repos, sem,
                   statsChan, errChan, successChan, failChan, allStats,
                   successRepos, failedRepos, received, ret, disc, iss, fil, cmd>>

\* mutation: stats and err are variables of the enclosing function, shared
\* by all goroutines
StatsWorkerRunSharedResult(i) ==
    /\ method = "stats"
    /\ i \in 1 .. Len(workers)
    /\ workers[i].st = "started"
    /\ \E up \in BatchIssueUpstreams(i) :
        LET r == GetIssueStatsForRepo(up, Owner, workers[i].repoName) IN
        workers' = [j \in 1 .. Len(workers) |->
                      IF j = i
                      THEN [workers[j] EXCEPT !.st = "run", !.calls = @ + 1,
                                              !.res = r]
                      ELSE [workers[j] EXCEPT !.res = r]]
    /\ UNCHANGED <<pc, requested, maxConcurrency, method, repos, idx, sem,
                   statsChan, errChan, successChan, failChan, allStats,
                   successRepos, failedRepos, received, ret, disc, iss, fil, cmd>>

\* stats, err := s.GetIssueStatsForRepo(ctx, owner, repoName)
StatsWorkerRun(i) ==
    /\ method = "stats"
    /\ i \in 1 .. Len(workers)
    /\ workers[i].st = "started"
    /\ \E up \in BatchIssueUpstreams(i) :
        workers' = [workers EXCEPT
            ![i].st = "run",
            ![i].calls = @ + 1,
            ![i].res = GetIssueStatsForRepo(up, Owner, workers[i].repoName)]
    /\ UNCHANGED <<pc, requested, maxConcurrency, method, repos, idx, sem,
                   statsChan, errChan, successChan, failChan, allStats,
                   successRepos, failedRepos, received, ret, disc, iss, fil, cmd>>

\* mutation: after the send on errChan the goroutine goes on to send stats
StatsWorkerSendBoth(i) ==
    /\ method = "stats"
    /\ i \in 1 .. Len(workers)
    /\ workers[i].st = "run"
    /\ IF workers[i].res.err # NilErr
       THEN /\ Len(errChan) < ChanCap
            /\ Len(statsChan) < ChanCap
            /\ errChan' = Append(errChan,
                   Errorf("failed to get issues for repository %s",
                          <<workers[i].repoName>>, workers[i].res.err))
            /\ statsChan' = Append(statsChan, workers[i].res.stats)
       ELSE /\ Len(statsChan) < ChanCap
            /\ statsChan' = Append(statsChan, workers[i].res.stats)
            /\ errChan' = errChan
    /\ workers' = [workers EXCEPT ![i].st = "deferred"]
    /\ UNCHANGED <<pc, requested, maxConcurrency, method, repos, idx, sem,
                   successChan, failChan, allStats,
                   successRepos, failedRepos, received, ret, disc, iss, fil, cmd>>

\* mutation: the slot is released after the send on statsChan only, so the
\* error path returns without releasing
StatsWorkerSendKeepsSlotOnError(i) ==
    /\ method = "stats"
    /\ i \in 1 .. Len(workers)
    /\ workers[i].st = "run"
    /\ IF workers[i].res.err # NilErr
       THEN /\ Len(errChan) < ChanCap
            /\ errChan' = Append(errChan,
                   Errorf("failed to get issues for repository %s",
                          <<workers[i].repoName>>, workers[i].res.err))
            /\ statsChan' = statsChan
            /\ workers' = [workers EXCEPT ![i].st = "exited"]
       ELSE /\ Len(statsChan) < ChanCap
            /\ statsChan' = Append(statsChan, workers[i].res.stats)
            /\ errChan' = errChan
            /\ workers' = [workers EXCEPT ![i].st = "deferred"]
    /\ UNCHANGED <<pc, requested, maxConcurrency, method, repos, idx, sem,
                   successChan, failChan, allStats,
                   successRepos, failedRepos, received, ret, disc, iss, fil, cmd>>

\* the send on errChan or on statsChan; both have capacity len(repos)
StatsWorkerSend(i) ==
    /\ method = "stats"
    /\ i \in 1 .. Len(workers)
    /\ workers[i].st = "run"
    /\ IF workers[i].res.err # NilErr
       THEN /\ Len(errChan) < ChanCap
            /\ errChan' = Append(errChan,
                   Errorf("failed to get issues for repository %s",
                          <<workers[i].repoName>>, workers[i].res.err))
            /\ statsChan' = statsChan
       ELSE /\ Len(statsChan) < ChanCap
            /\ statsChan' = Append(statsChan, workers[i].res.stats)
            /\ errChan' = errChan
    /\ workers' = [workers EXCEPT ![i].st = "deferred"]
    /\ UNCHANGED <<pc, requested, maxConcurrency, method, repos, idx, sem,
                   successChan, failChan, allStats,
                   successRepos, failedRepos, received, ret, disc, iss, fil, cmd>>

\* mutation: the goroutine returns without taking its token from sem
StatsWorkerNoRelease(i) ==
    /\ method = "stats"
    /\ i \in 1 .. Len(workers)
    /\ workers[i].st = "deferred"
    /\ workers' = [workers EXCEPT ![i].st = "exited"]
    /\ UNCHANGED <<pc, requested, maxConcurrency, method, repos, idx, sem,
                   statsChan, errChan, successChan, failChan, allStats,
                   successRepos, failedRepos, received, ret, disc, iss, fil, cmd>>

\* defer func() { <-sem }()
StatsWorkerRelease(i) ==
    /\ method = "stats"
    /\ i \in 1 .. Len(workers)
    /\ workers[i].st = "deferred"
    /\ sem > 0
    /\ sem' = sem - 1
    /\ workers' = [workers EXCEPT ![i].st = "exited"]
    /\ UNCHANGED <<pc, requested, maxConcurrency, method, repos, idx,
                   statsChan, errChan, successChan, failChan, allStats,
                   successRepos, failedRepos, received, ret, disc, iss, fil, cmd>>

\* mutation: a failed repository gets a placeholder entry in the result
StatsCollectKeepsFailed ==
    /\ pc = "collect"
    /\ method = "stats"
    /\ received < M
    /\ \/ /\ Len(statsChan) > 0
          /\ allStats' = SliceAppend(allStats, Head(statsChan))
          /\ statsChan' = Tail(statsChan)
          /\ errChan' = errChan
       \/ /\ Len(errChan) > 0
          /\ errChan' = Tail(errChan)
          /\ allStats' = SliceAppend(allStats, NoStats)
          /\ statsChan' = statsChan
    /\ received' = received + 1
    /\ UNCHANGED <<pc, requested, maxConcurrency, method, repos, idx, sem,
                   workers, successChan, failChan,
                   successRepos, failedRepos, ret, disc, iss, fil, cmd>>

\* one iteration of the collector loop: the select takes a ready channel
StatsCollect ==
    /\ pc = "collect"
    /\ method = "stats"
    /\ received < M
    /\ \/ /\ Len(statsChan) > 0
          /\ allStats' = SliceAppend(allStats, Head(statsChan))
          /\ statsChan' = Tail(statsChan)
          /\ errChan' = errChan
       \/ /\ Len(errChan) > 0
          /\ errChan' = Tail(errChan)
          /\ UNCHANGED <<allStats, statsChan>>
    /\ received' = received + 1
    /\ UNCHANGED <<pc, requested, maxConcurrency, method, repos, idx, sem,
                   workers, successChan, failChan,
                   successRepos, failedRepos, ret, disc, iss, fil, cmd>>

\* mutation: the collector drains one message per slot, not one per repository
StatsReturnPerSlot ==
    /\ pc = "collect"
    /\ method = "stats"
    /\ received = (IF M < maxConcurrency THEN M ELSE maxConcurrency)
    /\ ret' = [NoRet EXCEPT !.stats = allStats, !.err = NilErr]
    /\ pc' = "returned"
    /\ UNCHANGED <<requested, maxConcurrency, method, repos, idx, sem,
                   workers, statsChan, errChan, successChan, failChan, allStats,
                   successRepos, failedRepos, received, disc, iss, fil, cmd>>

\* mutation: a batch in which no operation succeeded returns an error
StatsReturnErrorWhenNone ==
    /\ pc = "collect"
    /\ method = "stats"
    /\ received = M
    /\ ret' = IF SliceLen(allStats) = 0
              THEN [NoRet EXCEPT !.err = Errorf("no statistics collected", <<>>, NilErr)]
              ELSE [NoRet EXCEPT !.stats = allStats, !.err = NilErr]
    /\ pc' = "returned"
    /\ UNCHANGED <<requested, maxConcurrency, method, repos, idx, sem,
                   workers, statsChan, errChan, successChan, failChan, allStats,
                   successRepos, failedRepos, received, disc, iss, fil, cmd>>

\* return allStats, nil
StatsReturn ==
    /\ pc = "collect"
    /\ method = "stats"
    /\ received = M
    /\ ret' = [NoRet EXCEPT !.stats = allStats, !.err = NilErr]
    /\ pc' = "returned"
    /\ UNCHANGED <<requested, maxConcurrency, method, repos, idx, sem,
                   workers, statsChan, errChan, successChan, failChan, allStats,
                   successRepos, failedRepos, received, disc, iss, fil, cmd>>

\* -------------------------------------- AddCodeownersToReposWithPrefix
CoEmptyReturn == [NoRet EXCEPT !.success = NilSlice, !.failed = NilSlice, !.err = NilErr]

\* mutation: a failed discovery is answered with the error and two empty,
\* non-nil lists
CoCallEmptyListsOnError ==
    /\ pc = "ready"
    /\ method' = "codeowners"
    /\ \E up \in Upstreams, prefix \in PrefixSet, isUser \in BOOLEAN :
        LET d == GetRepositoriesWithPrefix(up, Owner, prefix, isUser) IN
        /\ repos' = d.repos
        /\ IF d.err # NilErr
           THEN /\ ret' = [NoRet EXCEPT
                             !.success = [isnil |-> FALSE, elems |-> <<>>],
                             !.failed = [isnil |-> FALSE, elems |-> <<>>],
                             !.err = d.err]
                /\ pc' = "returned"
           ELSE IF SliceLen(d.repos) = 0
           THEN /\ ret' = CoEmptyReturn
                /\ pc' = "returned"
           ELSE /\ ret' = ret
                /\ pc' = "acquire"
    /\ successRepos' = NilSlice
    /\ failedRepos' = NilSlice
    /\ successChan' = <<>>
    /\ failChan' = <<>>
    /\ sem' = 0
    /\ idx' = 1
    /\ UNCHANGED <<requested, maxConcurrency, workers, statsChan, errChan,
                   allStats, received, disc, iss, fil, cmd>>

\* discovery, the empty check and the creation of the channels
CoCall ==
    /\ pc = "ready"
    /\ method' = "codeowners"
    /\ \E up \in Upstreams, prefix \in PrefixSet, isUser \in BOOLEAN :
        LET d == GetRepositoriesWithPrefix(up, Owner, prefix, isUser) IN
        /\ repos' = d.repos
        /\ IF d.err # NilErr
           THEN /\ ret' = [NoRet EXCEPT !.err = d.err]
                /\ pc' = "returned"
           ELSE IF SliceLen(d.repos) = 0
           THEN /\ ret' = CoEmptyReturn
                /\ pc' = "returned"
           ELSE /\ ret' = ret
                /\ pc' = "acquire"
    /\ successRepos' = NilSlice
    /\ failedRepos' = NilSlice
    /\ successChan' = <<>>
    /\ failChan' = <<>>
    /\ sem' = 0
    /\ idx' = 1
    /\ UNCHANGED <<requested, maxConcurrency, workers, statsChan, errChan,
                   allStats, received, disc, iss, fil, cmd>>

\* mutation: the dispatch loop stops launching once an operation has failed
CoAcquireStopsOnFailure ==
    /\ pc = "acquire"
    /\ method = "codeowners"
    /\ sem < maxConcurrency
    /\ \A j \in 1 .. Len(workers) : workers[j].res.err = NilErr
    /\ sem' = sem + 1
    /\ pc' = "go"
    /\ UNCHANGED <<requested, maxConcurrency, method, repos, idx, workers,
                   statsChan, errChan, successChan, failChan, allStats,
                   successRepos, failedRepos, received, ret, disc, iss, fil, cmd>>

\* mutation: the dispatch loop does not wait for a slot
CoAcquireUnbounded ==
    /\ pc = "acquire"
    /\ method = "codeowners"
    /\ sem' = sem + 1
    /\ pc' = "go"
    /\ UNCHANGED <<requested, maxConcurrency, method, repos, idx, workers,
                   statsChan, errChan, successChan, failChan, allStats,
                   successRepos, failedRepos, received, ret, disc, iss, fil, cmd>>

\* sem <- struct{}{}
CoAcquire ==
    /\ pc = "acquire"
    /\ method = "codeowners"
    /\ sem < maxConcurrency
    /\ sem' = sem + 1
    /\ pc' = "go"
    /\ UNCHANGED <<requested, maxConcurrency, method, repos, idx, workers,
                   statsChan, errChan, successChan, failChan, allStats,
                   successRepos, failedRepos, received, ret, disc, iss, fil, cmd>>

CoWorker(repoName) ==
    [st |-> "started", repoName |-> repoName, calls |-> 0,
     res |-> [err |-> NilErr, committed |-> FALSE]]

\* go func(repoName string) {...}(repo.GetName()), and the loop moves on
CoGo ==
    /\ pc = "go"
    /\ method = "codeowners"
    /\ workers' = Append(workers, CoWorker(repos.elems[idx]))
    /\ idx' = idx + 1
    /\ pc' = IF idx + 1 > M THEN "collect" ELSE "acquire"
    /\ UNCHANGED <<requested, maxConcurrency, method, repos, sem,
                   statsChan, errChan, successChan, failChan, allStats,
                   successRepos, failedRepos, received, ret, disc, iss, fil, cmd>>

\* err := s.CreateOrUpdateFile(ctx, owner, repoName, ".github/CODEOWNERS", ...)
CoWorkerRun(i) ==
    /\ method = "codeowners"
    /\ i \in 1 .. Len(workers)
    /\ workers[i].st = "started"
    /\ \E up \in FileUpstreams :
        workers' = [workers EXCEPT
            ![i].st = "run",
            ![i].calls = @ + 1,
            ![i].res = LET r == CreateOrUpdateFile(up, Owner, workers[i].repoName,
                                                   CodeownersPath)
                       IN [err |-> r.err, committed |-> r.committed]]
    /\ UNCHANGED <<pc, requested, maxConcurrency, method, repos, idx, sem,
                   statsChan, errChan, successChan, failChan, allStats,
                   successRepos, failedRepos, received, ret, disc, iss, fil, cmd>>

\* mutation: the return after the send on failChan is missing
CoWorkerSendNoReturn(i) ==
    /\ method = "codeowners"
    /\ i \in 1 .. Len(workers)
    /\ workers[i].st = "run"
    /\ IF workers[i].res.err # NilErr
       THEN /\ Len(failChan) < ChanCap
            /\ Len(successChan) < ChanCap
            /\ failChan' = Append(failChan, workers[i].repoName)
            /\ successChan' = Append(successChan, workers[i].repoName)
       ELSE /\ Len(successChan) < ChanCap
            /\ successChan' = Append(successChan, workers[i].repoName)
            /\ failChan' = failChan
    /\ workers' = [workers EXCEPT ![i].st = "deferred"]
    /\ UNCHANGED <<pc, requested, maxConcurrency, method, repos, idx, sem,
                   statsChan, errChan, allStats,
                   successRepos, failedRepos, received, ret, disc, iss, fil, cmd>>

\* the send on failChan or on successChan; both have capacity len(repos)
CoWorkerSend(i) ==
    /\ method = "codeowners"
    /\ i \in 1 .. Len(workers)
    /\ workers[i].st = "run"
    /\ IF workers[i].res.err # NilErr
       THEN /\ Len(failChan) < ChanCap
            /\ failChan' = Append(failChan, workers[i].repoName)
            /\ successChan' = successChan
       ELSE /\ Len(successChan) < ChanCap
            /\ successChan' = Append(successChan, workers[i].repoName)
            /\ failChan' = failChan
    /\ workers' = [workers EXCEPT ![i].st = "deferred"]
    /\ UNCHANGED <<pc, requested, maxConcurrency, method, repos, idx, sem,
                   statsChan, errChan, allStats,
                   successRepos, failedRepos, received, ret, disc, iss, fil, cmd>>

\* defer func() { <-sem }()
CoWorkerRelease(i) ==
    /\ method = "codeowners"
    /\ i \in 1 .. Len(workers)
    /\ workers[i].st = "deferred"
    /\ sem > 0
    /\ sem' = sem - 1
    /\ workers' = [workers EXCEPT ![i].st = "exited"]
    /\ UNCHANGED <<pc, requested, maxConcurrency, method, repos, idx,
                   statsChan, errChan, successChan, failChan, allStats,
                   successRepos, failedRepos, received, ret, disc, iss, fil, cmd>>

\* one iteration of the collector loop: the select takes a ready channel
CoCollect ==
    /\ pc = "collect"
    /\ method = "codeowners"
    /\ received < M
    /\ \/ /\ Len(successChan) > 0
          /\ successRepos' = SliceAppend(successRepos, Head(successChan))
          /\ successChan' = Tail(successChan)
          /\ UNCHANGED <<failedRepos, failChan>>
       \/ /\ Len(failChan) > 0
          /\ failedRepos' = SliceAppend(failedRepos, Head(failChan))
          /\ failChan' = Tail(failChan)
          /\ UNCHANGED <<successRepos, successChan>>
    /\ received' = received + 1
    /\ UNCHANGED <<pc, requested, maxConcurrency, method, repos, idx, sem,
                   workers, statsChan, errChan, allStats, ret, disc, iss, fil, cmd>>

\* mutation: the collector stops one receive short
CoReturnOneShort ==
    /\ pc = "collect"
    /\ method = "codeowners"
    /\ received = M - 1
    /\ ret' = [NoRet EXCEPT !.success = successRepos, !.failed = failedRepos,
                            !.err = NilErr]
    /\ pc' = "returned"
    /\ UNCHANGED <<requested, maxConcurrency, method, repos, idx, sem,
                   workers, statsChan, errChan, successChan, failChan, allStats,
                   successRepos, failedRepos, received, disc, iss, fil, cmd>>

\* return successRepos, failedRepos, nil
CoReturn ==
    /\ pc = "collect"
    /\ method = "codeowners"
    /\ received = M
    /\ ret' = [NoRet EXCEPT !.success = successRepos, !.failed = failedRepos,
                            !.err = NilErr]
    /\ pc' = "returned"
    /\ UNCHANGED <<requested, maxConcurrency, method, repos, idx, sem,
                   workers, statsChan, errChan, successChan, failChan, allStats,
                   successRepos, failedRepos, received, disc, iss, fil, cmd>>

\* ------------------------------------------------------- specifications
Worker(i) ==
    \/ StatsWorkerRun(i)
    \/ StatsWorkerSend(i)
    \/ StatsWorkerRelease(i)
    \/ CoWorkerRun(i)
    \/ CoWorkerSend(i)
    \/ CoWorkerRelease(i)

Main ==
    \/ New
    \/ StatsCall
    \/ StatsAcquire
    \/ StatsGo
    \/ StatsCollect
    \/ StatsReturn
    \/ CoCall
    \/ CoAcquire
    \/ CoGo
    \/ CoCollect
    \/ CoReturn

Next == Main \/ \E i \in 1 .. MaxRepos : Worker(i)

Spec == Init /\ [][Next]_vars

\* the Go scheduler runs every runnable goroutine eventually
FairSpec ==
    /\ Spec
    /\ WF_vars(Main)
    /\ \A i \in 1 .. MaxRepos : WF_vars(Worker(i))

\* a stand-alone call of the constructor, for every limit of ReqSet
InitNew ==
    /\ pc = "new"
    /\ requested \in ReqSet
    /\ maxConcurrency = 0
    /\ method = "none"
    /\ repos = NilSlice
    /\ idx = 1
    /\ sem = 0
    /\ workers = <<>>
    /\ statsChan = <<>>
    /\ errChan = <<>>
    /\ successChan = <<>>
    /\ failChan = <<>>
    /\ allStats = NilSlice
    /\ successRepos = NilSlice
    /\ failedRepos = NilSlice
    /\ received = 0
    /\ ret = NoRet
    /\ disc = NoDisc
    /\ iss = NoIss
    /\ fil = NoFil
    /\ cmd = NoCmd

NewCall ==
    /\ pc = "new"
    /\ maxConcurrency' = NewGitHubServiceWithLogger(requested).maxConcurrency
    /\ pc' = "ready"
    /\ UNCHANGED <<requested, method, repos, idx, sem, workers, statsChan, errChan,
                   successChan, failChan, allStats, successRepos, failedRepos,
                   received, ret, disc, iss, fil, cmd>>

NextNew == NewCall

SpecNew == InitNew /\ [][NextNew]_vars

\* a stand-alone call of GetRepositoriesWithPrefix
InitDisc ==
    /\ InitBatch
    /\ iss = NoIss
    /\ fil = NoFil
    /\ cmd = NoCmd
    /\ \E up \in Upstreams, prefix \in PrefixSet, isUser \in BOOLEAN :
        disc = [NoDisc EXCEPT !.pc = "call", !.up = up, !.prefix = prefix,
                              !.isUser = isUser]

DiscCall ==
    /\ disc.pc = "call"
    /\ disc' = [disc EXCEPT
           !.pc = "returned",
           !.out = GetRepositoriesWithPrefix(disc.up, Owner, disc.prefix, disc.isUser)]
    /\ UNCHANGED <<batchVars, iss, fil, cmd>>

NextDisc == DiscCall

SpecDisc == InitDisc /\ [][NextDisc]_vars

\* ---------------------------------------- GetIssueStatsForRepo, step by step
\* The upstream holds at most MaxIssues entries for a repository and serves
\* them PageSize to a page (the program asks for pages of 100).
MaxIssues == 4
PageSize == 2

\* states the upstream reports, with and without a pull-request linkage
IssueKinds ==
    { Issue("open", FALSE), Issue("closed", FALSE), Issue("Open", FALSE),
      Issue("", FALSE), Issue("closed", TRUE) }

IssueLists ==
    UNION { [1 .. n -> IssueKinds] : n \in 0 .. MaxIssues }

\* the pages the upstream cuts a list into; an empty list is one empty page
RECURSIVE Chunk(_)
Chunk(list) ==
    IF Len(list) <= PageSize THEN << list >>
    ELSE << SubSeq(list, 1, PageSize) >>
         \o Chunk(SubSeq(list, PageSize + 1, Len(list)))

IssueInputs ==
    { [exists |-> e, pages |-> Chunk(l), failAt |-> f] :
        e \in BOOLEAN, l \in IssueLists, f \in 0 .. MaxPages }

StatsUpstreams ==
    { up \in IssueInputs : /\ Len(up.pages) <= MaxPages
                           /\ up.failAt <= Len(up.pages) }

InitStats ==
    /\ InitBatch
    /\ disc = NoDisc
    /\ fil = NoFil
    /\ cmd = NoCmd
    /\ iss = NoIss

\* the call: the repository asked about and what the upstream holds for it
IssCall ==
    /\ iss.pc = "idle"
    /\ \E up \in StatsUpstreams, repoName \in NameSet :
         iss' = [iss EXCEPT !.pc = "get", !.up = up, !.repoName = repoName]
    /\ UNCHANGED <<batchVars, disc, fil, cmd>>

\* mutation: a failed lookup answers with zero-valued statistics
IssGetZeroStats ==
    /\ iss.pc = "get"
    /\ iss' = [iss EXCEPT
           !.pc = IF iss.up.exists THEN "list" ELSE "done",
           !.gets = @ + 1,
           !.isnil = FALSE,
           !.stats = [RepoName |-> iss.repoName, TotalIssues |-> 0,
                      OpenIssues |-> 0, ClosedIssues |-> 0],
           !.err = IF iss.up.exists THEN NilErr
                   ELSE Errorf("failed to get repository %s/%s",
                               <<Owner, iss.repoName>>,
                               UpstreamErr("404 Not Found"))]
    /\ UNCHANGED <<batchVars, disc, fil, cmd>>

\* mutation: the error of the lookup is not looked at before the listing
IssGetUnchecked ==
    /\ iss.pc = "get"
    /\ iss' = [iss EXCEPT
           !.pc = "list",
           !.gets = @ + 1,
           !.isnil = FALSE,
           !.page = 0,
           !.stats = [RepoName |-> iss.repoName, TotalIssues |-> 0,
                      OpenIssues |-> 0, ClosedIssues |-> 0]]
    /\ UNCHANGED <<batchVars, disc, fil, cmd>>

\* Repositories.Get, the error return, and the allocation of stats and opts
IssGet ==
    /\ iss.pc = "get"
    /\ IF ~iss.up.exists
       THEN iss' = [iss EXCEPT
                !.pc = "done",
                !.gets = @ + 1,
                !.isnil = TRUE,
                !.err = Errorf("failed to get repository %s/%s",
                               <<Owner, iss.repoName>>,
                               UpstreamErr("404 Not Found"))]
       ELSE iss' = [iss EXCEPT
                !.pc = "list",
                !.gets = @ + 1,
                !.isnil = FALSE,
                !.page = 0,
                !.stats = [RepoName |-> iss.repoName, TotalIssues |-> 0,
                           OpenIssues |-> 0, ClosedIssues |-> 0]]
    /\ UNCHANGED <<batchVars, disc, fil, cmd>>

\* mutation: the counters start from zero on every page
IssListPerPage ==
    /\ iss.pc = "list"
    /\ LET r == ListByRepo(iss.up, iss.page) IN
       IF r.err # NilErr
       THEN iss' = [iss EXCEPT
                !.pc = "done",
                !.lists = Append(@, iss.page),
                !.isnil = TRUE,
                !.err = Errorf("failed to list issues for %s/%s",
                               <<Owner, iss.repoName>>, r.err)]
       ELSE iss' = [iss EXCEPT
                !.pc = "count",
                !.lists = Append(@, iss.page),
                !.issues = r.issues,
                !.NextPage = r.NextPage,
                !.stats = [RepoName |-> iss.repoName, TotalIssues |-> 0,
                           OpenIssues |-> 0, ClosedIssues |-> 0]]
    /\ UNCHANGED <<batchVars, disc, fil, cmd>>

\* Issues.ListByRepo for opts.Page and the error return
IssList ==
    /\ iss.pc = "list"
    /\ LET r == ListByRepo(iss.up, iss.page) IN
       IF r.err # NilErr
       THEN iss' = [iss EXCEPT
                !.pc = "done",
                !.lists = Append(@, iss.page),
                !.isnil = TRUE,
                !.err = Errorf("failed to list issues for %s/%s",
                               <<Owner, iss.repoName>>, r.err)]
       ELSE iss' = [iss EXCEPT
                !.pc = "count",
                !.lists = Append(@, iss.page),
                !.issues = r.issues,
                !.NextPage = r.NextPage]
    /\ UNCHANGED <<batchVars, disc, fil, cmd>>

\* one iteration of the loop over the issues of the page
IssCountOne ==
    /\ iss.pc = "count"
    /\ iss.issues # <<>>
    /\ iss' = [iss EXCEPT !.stats = CountIssue(iss.stats, Head(iss.issues)),
                          !.issues = Tail(@)]
    /\ UNCHANGED <<batchVars, disc, fil, cmd>>

\* mutation: the next request is for the page after the one just asked for,
\* whatever the response named
IssPageEndIncrements ==
    /\ iss.pc = "count"
    /\ iss.issues = <<>>
    /\ IF iss.NextPage = 0
       THEN iss' = [iss EXCEPT !.pc = "done", !.err = NilErr]
       ELSE iss' = [iss EXCEPT !.pc = "list", !.page = iss.page + 1]
    /\ UNCHANGED <<batchVars, disc, fil, cmd>>

\* after the last issue of the page: return, or ask for resp.NextPage
IssPageEnd ==
    /\ iss.pc = "count"
    /\ iss.issues = <<>>
    /\ IF iss.NextPage = 0
       THEN iss' = [iss EXCEPT !.pc = "done", !.err = NilErr]
       ELSE iss' = [iss EXCEPT !.pc = "list", !.page = iss.NextPage]
    /\ UNCHANGED <<batchVars, disc, fil, cmd>>

NextStats == IssCall \/ IssGet \/ IssList \/ IssCountOne \/ IssPageEnd

SpecStats == InitStats /\ [][NextStats]_vars

\* ------------------------------------------ CreateOrUpdateFile, step by step
\* the revision markers the upstream may hold and the contents written
ShaSet == {"s1", "s2"}
ContentSet == {"", "* @team"}
CommitMessage == "Add/Update CODEOWNERS file"

FileInputs ==
    [read : {"found", "notfound", "error", "noresp"}, sha : ShaSet,
     writeOk : BOOLEAN]

InitFile ==
    /\ InitBatch
    /\ disc = NoDisc
    /\ iss = NoIss
    /\ fil = NoFil
    /\ cmd = NoCmd

\* the call: the repository, the content, and what the upstream will answer
FileCall ==
    /\ fil.pc = "idle"
    /\ \E up \in FileInputs, repoName \in NameSet, content \in ContentSet :
         fil' = [fil EXCEPT !.pc = "read", !.up = up, !.repoName = repoName,
                            !.content = content, !.cur = GetContents(up).SHA]
    /\ UNCHANGED <<batchVars, disc, iss, cmd>>

\* the error returned when the read fails for another reason than 404
ReadFailed(r) ==
    Errorf("failed to check if file exists %s/%s:%s",
           <<Owner, fil.repoName, CodeownersPath>>, r.err)

\* mutation: a 404 on the read ends the call like any other read error
FileReadNotFoundFatal ==
    /\ fil.pc = "read"
    /\ LET r == GetContents(fil.up) IN
       IF r.err # NilErr
       THEN fil' = [fil EXCEPT !.pc = "done", !.reads = @ + 1,
                               !.err = ReadFailed(r)]
       ELSE fil' = [fil EXCEPT !.pc = "write", !.reads = @ + 1, !.sha = r.SHA]
    /\ UNCHANGED <<batchVars, disc, iss, cmd>>

\* mutation: the SHA of the file read is not kept
FileReadDropsSha ==
    /\ fil.pc = "read"
    /\ LET r == GetContents(fil.up) IN
       IF r.err # NilErr /\ ~(r.hasResp /\ r.StatusCode = StatusNotFound)
       THEN fil' = [fil EXCEPT !.pc = "done", !.reads = @ + 1,
                               !.err = ReadFailed(r)]
       ELSE fil' = [fil EXCEPT !.pc = "write", !.reads = @ + 1]
    /\ UNCHANGED <<batchVars, disc, iss, cmd>>

\* mutation: every failed read is taken for a missing file
FileReadAnyErrorCreates ==
    /\ fil.pc = "read"
    /\ LET r == GetContents(fil.up) IN
       fil' = [fil EXCEPT !.pc = "write", !.reads = @ + 1,
                          !.sha = IF r.err # NilErr THEN <<>> ELSE r.SHA]
    /\ UNCHANGED <<batchVars, disc, iss, cmd>>

\* Repositories.GetContents and the decision taken on its answer: sha stays
\* nil on a 404, is the file's SHA when the read succeeds, and any other
\* error is returned
FileRead ==
    /\ fil.pc = "read"
    /\ LET r == GetContents(fil.up) IN
       IF r.err # NilErr
       THEN IF r.hasResp /\ r.StatusCode = StatusNotFound
            THEN fil' = [fil EXCEPT !.pc = "write", !.reads = @ + 1]
            ELSE fil' = [fil EXCEPT !.pc = "done", !.reads = @ + 1,
                                    !.err = ReadFailed(r)]
       ELSE fil' = [fil EXCEPT !.pc = "write", !.reads = @ + 1, !.sha = r.SHA]
    /\ UNCHANGED <<batchVars, disc, iss, cmd>>

\* the CreateFile request built from opts
WriteCall ==
    [path |-> CodeownersPath, message |-> CommitMessage,
     content |-> fil.content, sha |-> fil.sha]

WriteFailed ==
    Errorf("failed to create/update file %s/%s:%s",
           <<Owner, fil.repoName, CodeownersPath>>, UpstreamErr("write failed"))

\* another writer changes the file at the path between the read and the
\* write of this call: the upstream's marker for it is no longer the one read
FileChange ==
    /\ fil.pc = "write"
    /\ fil.cur = GetContents(fil.up).SHA
    /\ \E s \in ShaSet :
         /\ <<s>> # fil.cur
         /\ fil' = [fil EXCEPT !.cur = <<s>>]
    /\ UNCHANGED <<batchVars, disc, iss, cmd>>

\* mutation: the write reads the path again and sends the marker it finds
FileWriteRereads ==
    /\ fil.pc = "write"
    /\ LET call == [WriteCall EXCEPT !.sha = fil.cur]
           again == IF fil.cur # fil.sha THEN 1 ELSE 0
       IN IF fil.up.writeOk
          THEN fil' = [fil EXCEPT !.pc = "done", !.writes = Append(@, call),
                                  !.reads = @ + again,
                                  !.commits = @ + 1, !.err = NilErr]
          ELSE fil' = [fil EXCEPT !.pc = "done", !.writes = Append(@, call),
                                  !.reads = @ + again,
                                  !.err = WriteFailed]
    /\ UNCHANGED <<batchVars, disc, iss, cmd>>

\* mutation: a failed write is tried a second time
FileWriteRetries ==
    /\ fil.pc = "write"
    /\ IF fil.up.writeOk
       THEN fil' = [fil EXCEPT !.pc = "done", !.writes = Append(@, WriteCall),
                               !.commits = @ + 1, !.err = NilErr]
       ELSE fil' = [fil EXCEPT !.pc = IF Len(fil.writes) = 0 THEN "write" ELSE "done",
                               !.writes = Append(@, WriteCall),
                               !.err = WriteFailed]
    /\ UNCHANGED <<batchVars, disc, iss, cmd>>

\* Repositories.CreateFile and the return; the upstream commits the file
\* when it answers without error
FileWrite ==
    /\ fil.pc = "write"
    /\ IF fil.up.writeOk
       THEN fil' = [fil EXCEPT !.pc = "done", !.writes = Append(@, WriteCall),
                               !.commits = @ + 1, !.err = NilErr]
       ELSE fil' = [fil EXCEPT !.pc = "done", !.writes = Append(@, WriteCall),
                               !.err = WriteFailed]
    /\ UNCHANGED <<batchVars, disc, iss, cmd>>

NextFile == FileCall \/ FileRead \/ FileChange \/ FileWrite

SpecFile == InitFile /\ [][NextFile]_vars

\* ------------------------------------------------- the subcommands, step by step
\* the errors the subcommands return before they call the service ("" is nil)
ErrFlagNotSet == "required flag(s) \"codeowner-file\" not set"
ErrNeitherOwner == "either organization (--org) or username (--username) is required"
ErrBothOwners == "cannot specify both --org and --username"
ErrBothRepos == "cannot specify both --repo and --repo-prefix"
ErrNoFile == "codeowners file path (--codeowner-file) is required"
ErrReadFile == "failed to read CODEOWNERS file"
ErrNoToken == "GitHub token (--token) is required or must be set in GITHUB_TOKEN environment variable"
ErrService == "service error"

\* the command lines: each string flag left out (its default "") or given;
\* --codeowner-file exists for codeowners only, and may be given as ""
CmdNames == {"get-issue-count", "codeowners"}

FlagSets ==
    { f \in [org : {"", "o"}, username : {"", "u"}, repoName : {"", "r"},
             repoPrefix : {"", "p"}, token : {"", "t"}, fileSet : BOOLEAN,
             codeownersFile : {"", "f"}] :
        ~f.fileSet => f.codeownersFile = "" }

\* the statistics a batch can hand to the report
StatKinds ==
    { [RepoName |-> <<"t", "a">>, TotalIssues |-> 0, OpenIssues |-> 0, ClosedIssues |-> 0],
      [RepoName |-> <<"T", "a">>, TotalIssues |-> 0, OpenIssues |-> 0, ClosedIssues |-> 0],
      [RepoName |-> <<"t", "a">>, TotalIssues |-> 1, OpenIssues |-> 1, ClosedIssues |-> 0],
      [RepoName |-> <<"T", "a">>, TotalIssues |-> 2, OpenIssues |-> 1, ClosedIssues |-> 1],
      [RepoName |-> <<"t", "a">>, TotalIssues |-> 3, OpenIssues |-> 0, ClosedIssues |-> 3] }

StatSlices ==
    {NilSlice} \cup
    { [isnil |-> FALSE, elems |-> q] :
        q \in UNION { [1 .. n -> StatKinds] : n \in 1 .. MaxRepos } }

\* NewGitHubClient: with a token an authenticated client, without one an
\* unauthenticated client
NewGitHubClient(token) == IF token # "" THEN "auth" ELSE "unauth"

InitCmd ==
    /\ InitBatch
    /\ disc = NoDisc
    /\ iss = NoIss
    /\ fil = NoFil
    /\ cmd = NoCmd

\* the command line, the environment variable GITHUB_TOKEN and whether the
\* local CODEOWNERS file can be read
CmdCall ==
    /\ cmd.pc = "idle"
    /\ \E name \in CmdNames, f \in FlagSets, env \in {"", "e"}, fileOk \in BOOLEAN :
         /\ name = "get-issue-count" => (~f.fileSet /\ ~fileOk)
         /\ cmd' = [cmd EXCEPT !.pc = "parse", !.name = name, !.flags = f,
                               !.env = env, !.fileOk = fileOk]
    /\ UNCHANGED <<batchVars, disc, iss, fil>>

\* cmd.MarkFlagRequired("codeowner-file"): RunE is not entered without it
CmdParse ==
    /\ cmd.pc = "parse"
    /\ IF cmd.name = "codeowners" /\ ~cmd.flags.fileSet
       THEN cmd' = [cmd EXCEPT !.pc = "done", !.err = ErrFlagNotSet]
       ELSE cmd' = [cmd EXCEPT !.pc = "validate"]
    /\ UNCHANGED <<batchVars, disc, iss, fil>>

\* the checks at the head of get-issue-count's RunE
validateIssueCountFlags(f) ==
    IF f.org = "" /\ f.username = "" THEN ErrNeitherOwner
    ELSE IF f.org # "" /\ f.username # "" THEN ErrBothOwners
    ELSE IF f.repoName # "" /\ f.repoPrefix # "" THEN ErrBothRepos
    ELSE ""

validateCodeownersFlags(f) ==
    IF f.org = "" /\ f.username = "" THEN ErrNeitherOwner
    ELSE IF f.org # "" /\ f.username # "" THEN ErrBothOwners
    ELSE IF f.repoName # "" /\ f.repoPrefix # "" THEN ErrBothRepos
    ELSE IF f.codeownersFile = "" THEN ErrNoFile
    ELSE ""

\* mutation: only --org names the owner, and it is required
CmdValidateOrgRequired ==
    /\ cmd.pc = "validate"
    /\ LET f == cmd.flags
           err == IF f.org = "" THEN "organization (--org) is required"
                  ELSE IF f.repoName # "" /\ f.repoPrefix # "" THEN ErrBothRepos
                  ELSE IF cmd.name = "codeowners" /\ f.codeownersFile = ""
                       THEN ErrNoFile
                  ELSE ""
       IN IF err # ""
          THEN cmd' = [cmd EXCEPT !.pc = "done", !.err = err]
          ELSE cmd' = [cmd EXCEPT !.pc = IF cmd.name = "codeowners"
                                         THEN "file" ELSE "token"]
    /\ UNCHANGED <<batchVars, disc, iss, fil>>

\* the validation of the flags and the return of its error
CmdValidate ==
    /\ cmd.pc = "validate"
    /\ LET err == IF cmd.name = "codeowners"
                  THEN validateCodeownersFlags(cmd.flags)
                  ELSE validateIssueCountFlags(cmd.flags)
       IN IF err # ""
          THEN cmd' = [cmd EXCEPT !.pc = "done", !.err = err]
          ELSE cmd' = [cmd EXCEPT !.pc = IF cmd.name = "codeowners"
                                         THEN "file" ELSE "token"]
    /\ UNCHANGED <<batchVars, disc, iss, fil>>

\* readCodeownersFile and the return of its error
CmdReadFile ==
    /\ cmd.pc = "file"
    /\ IF ~cmd.fileOk
       THEN cmd' = [cmd EXCEPT !.pc = "done", !.err = ErrReadFile]
       ELSE cmd' = [cmd EXCEPT !.pc = "token"]
    /\ UNCHANGED <<batchVars, disc, iss, fil>>

\* mutation: a run without any token goes on
CmdTokenOptional ==
    /\ cmd.pc = "token"
    /\ cmd' = [cmd EXCEPT !.pc = "client",
                          !.token = IF cmd.flags.token = "" THEN cmd.env
                                    ELSE cmd.flags.token]
    /\ UNCHANGED <<batchVars, disc, iss, fil>>

\* the token of the flag or else of GITHUB_TOKEN, and the error when both
\* are empty
CmdToken ==
    /\ cmd.pc = "token"
    /\ LET token == IF cmd.flags.token = "" THEN cmd.env ELSE cmd.flags.token
       IN IF token = ""
          THEN cmd' = [cmd EXCEPT !.pc = "done", !.token = token, !.err = ErrNoToken]
          ELSE cmd' = [cmd EXCEPT !.pc = "client", !.token = token]
    /\ UNCHANGED <<batchVars, disc, iss, fil>>

\* owner and isUser, the client and the service
CmdClient ==
    /\ cmd.pc = "client"
    /\ cmd' = [cmd EXCEPT
           !.pc = "handle",
           !.owner = IF cmd.flags.username # "" THEN cmd.flags.username
                     ELSE cmd.flags.org,
           !.isUser = cmd.flags.username # "",
           !.client = NewGitHubClient(cmd.token)]
    /\ UNCHANGED <<batchVars, disc, iss, fil>>

\* a call of the service, which goes to the network
ServiceCall(op, repoName, prefix) ==
    [op |-> op, owner |-> cmd.owner, isUser |-> cmd.isUser,
     repo |-> repoName, prefix |-> prefix]

\* handleMultipleRepos: the state of the command after the batch call has
\* answered with allStats and an error (failed) or none
NoReposMsg == "No repositories found matching the specified criteria"

handleMultipleRepos(r, failed) ==
    LET called == [cmd EXCEPT
            !.calls = Append(@, ServiceCall("GetIssueStatsForReposWithPrefix",
                                            "", cmd.flags.repoPrefix))]
    IN IF failed
       THEN [called EXCEPT !.pc = "done", !.err = ErrService]
       ELSE IF SliceLen(r) = 0
       THEN [called EXCEPT !.pc = "done", !.allStats = r, !.batch = r.elems,
                           !.log = Append(@, NoReposMsg)]
       ELSE [called EXCEPT !.pc = "display", !.allStats = r, !.batch = r.elems]

\* mutation: the batch is chosen when a prefix is given, the single
\* repository otherwise
CmdHandleByPrefix ==
    /\ cmd.pc = "handle"
    /\ LET f == cmd.flags IN
       IF f.repoPrefix = ""
       THEN \E ok \in BOOLEAN :
              IF cmd.name = "get-issue-count"
              THEN \E st \in StatKinds :
                     cmd' = [cmd EXCEPT
                        !.pc = "done",
                        !.calls = Append(@, ServiceCall("GetIssueStatsForRepo",
                                                        f.repoName, "")),
                        !.out = IF ok THEN <<st>> ELSE <<>>,
                        !.err = IF ok THEN "" ELSE ErrService]
              ELSE cmd' = [cmd EXCEPT
                        !.pc = "done",
                        !.calls = Append(@, ServiceCall("CreateOrUpdateFile",
                                                        f.repoName, "")),
                        !.err = IF ok THEN "" ELSE ErrService]
       ELSE IF cmd.name = "get-issue-count"
       THEN \/ cmd' = handleMultipleRepos(NilSlice, TRUE)
            \/ \E r \in StatSlices : cmd' = handleMultipleRepos(r, FALSE)
       ELSE \E ok \in BOOLEAN :
              cmd' = [cmd EXCEPT
                   !.pc = "done",
                   !.calls = Append(@, ServiceCall("AddCodeownersToReposWithPrefix",
                                                   "", f.repoPrefix)),
                   !.err = IF ok THEN "" ELSE ErrService]
    /\ UNCHANGED <<batchVars, disc, iss, fil>>

\* the dispatch at the end of RunE with handleSingleRepo, handleMultipleRepos,
\* handleSingleRepoCodeowners and handleMultipleReposCodeowners; the service
\* answers with an error or with a result
CmdHandle ==
    /\ cmd.pc = "handle"
    /\ LET f == cmd.flags IN
       IF f.repoName # ""
       THEN \E ok \in BOOLEAN :
              IF cmd.name = "get-issue-count"
              THEN \E st \in StatKinds :
                     cmd' = [cmd EXCEPT
                        !.pc = "done",
                        !.calls = Append(@, ServiceCall("GetIssueStatsForRepo",
                                                        f.repoName, "")),
                        !.out = IF ok THEN <<st>> ELSE <<>>,
                        !.err = IF ok THEN "" ELSE ErrService]
              ELSE cmd' = [cmd EXCEPT
                        !.pc = "done",
                        !.calls = Append(@, ServiceCall("CreateOrUpdateFile",
                                                        f.repoName, "")),
                        !.err = IF ok THEN "" ELSE ErrService]
       ELSE IF cmd.name = "get-issue-count"
       THEN \/ cmd' = handleMultipleRepos(NilSlice, TRUE)
            \/ \E r \in StatSlices : cmd' = handleMultipleRepos(r, FALSE)
       ELSE \E ok \in BOOLEAN :
              cmd' = [cmd EXCEPT
                   !.pc = "done",
                   !.calls = Append(@, ServiceCall("AddCodeownersToReposWithPrefix",
                                                   "", f.repoPrefix)),
                   !.err = IF ok THEN "" ELSE ErrService]
    /\ UNCHANGED <<batchVars, disc, iss, fil>>

\* mutation: the report is ordered by issue count only, largest first
DisplayLessByCountOnly(a, b) == a.TotalIssues > b.TotalIssues

\* the less function given to sort.Slice: a repository without issues comes
\* before one with issues, and otherwise the larger total comes first
DisplayLess(a, b) ==
    IF (a.TotalIssues = 0) # (b.TotalIssues = 0)
    THEN a.TotalIssues = 0
    ELSE a.TotalIssues > b.TotalIssues

Swap(d, i, j) == [d EXCEPT ![i] = d[j], ![j] = d[i]]

\* sort.Slice on a short slice is an insertion sort: the element at j moves
\* down while it is less than the one before it
RECURSIVE SiftDown(_, _)
SiftDown(d, j) ==
    IF j > 1 /\ DisplayLess(d[j], d[j - 1])
    THEN SiftDown(Swap(d, j, j - 1), j - 1)
    ELSE d

RECURSIVE InsertionSort(_, _)
InsertionSort(d, i) ==
    IF i > Len(d) THEN d ELSE InsertionSort(SiftDown(d, i), i + 1)

SortSlice(d) == InsertionSort(d, 2)

\* displayMultipleReposStats: the slice is sorted in place and printed in
\* that order
CmdDisplay ==
    /\ cmd.pc = "display"
    /\ LET sorted == SortSlice(cmd.allStats.elems) IN
       cmd' = [cmd EXCEPT !.pc = "done",
                          !.allStats = [cmd.allStats EXCEPT !.elems = sorted],
                          !.out = sorted]
    /\ UNCHANGED <<batchVars, disc, iss, fil>>

NextCmd ==
    \/ CmdCall
    \/ CmdParse
    \/ CmdValidate
    \/ CmdReadFile
    \/ CmdToken
    \/ CmdClient
    \/ CmdHandle
    \/ CmdDisplay

SpecCmd == InitCmd /\ [][NextCmd]_vars

\* ------------------------------------------------------- shared notions
RECURSIVE BagOfSeq(_)
BagOfSeq(q) == IF Len(q) = 0 THEN EmptyBag
               ELSE SetToBag({Head(q)}) (+) BagOfSeq(Tail(q))

RECURSIVE MapName(_)
MapName(ws) == IF Len(ws) = 0 THEN <<>>
               ELSE <<Head(ws).repoName>> \o MapName(Tail(ws))

RECURSIVE MapStats(_)
MapStats(ws) == IF Len(ws) = 0 THEN <<>>
                ELSE <<Head(ws).res.stats>> \o MapStats(Tail(ws))

Succeeded(wk) == wk.res.err = NilErr
Failed(wk) == wk.res.err # NilErr

\* a goroutine that was launched and has not returned
Live(i) == workers[i].st \in {"started", "run", "deferred"}
InFlight == Cardinality({ i \in 1 .. Len(workers) : Live(i) })

\* the batch call has returned after running the executor (a failed
\* discovery leaves repos nil)
BatchDone == pc = "returned" /\ M > 0

NumFailed == Cardinality({ i \in 1 .. Len(workers) : Failed(workers[i]) })

\* ------------------------------------------------------------------ claims
\* C1: in both batch operations, in every reachable state, the number of
\* per-repository goroutines launched and not yet returned is at most
\* maxConcurrency.
C1_InFlightBounded == InFlight <= maxConcurrency

\* the dispatch loop is blocked on a full semaphore with repositories left
C1_Witness ==
    /\ pc = "acquire"
    /\ M > maxConcurrency
    /\ InFlight = maxConcurrency
    /\ \E i \in 1 .. Len(workers) : workers[i].st = "run"

\* C8: when discovery succeeds with no repository, the batch call returns nil
\* results and a nil error and has launched no goroutine.
C8_EmptyBatch ==
    (pc = "returned" /\ ret.err = NilErr /\ M = 0) =>
        /\ ret.stats = NilSlice
        /\ ret.success = NilSlice
        /\ ret.failed = NilSlice
        /\ workers = <<>>
        /\ sem = 0

C8_Witness ==
    /\ pc = "returned"
    /\ ret.err = NilErr
    /\ M = 0
    /\ method = "stats"

\* C9: once the service is constructed, maxConcurrency is the requested value
\* when that is positive and the default 10 otherwise, hence at least 1.
C9_Coerced ==
    pc # "new" =>
        /\ requested > 0 => maxConcurrency = requested
        /\ requested <= 0 => maxConcurrency = 10
        /\ maxConcurrency >= 1

C9_Witness == pc = "ready" /\ requested = 0 - 1 /\ maxConcurrency = 10

\* C2 as stated: when AddCodeownersToReposWithPrefix returns, the two lists
\* have M entries together and every discovered name is in exactly one of
\* them.
InSeq(x, q) == \E k \in 1 .. Len(q) : q[k] = x

C2_Original ==
    (BatchDone /\ method = "codeowners") =>
        /\ SliceLen(ret.success) + SliceLen(ret.failed) = M
        /\ \A k \in 1 .. M :
             InSeq(repos.elems[k], ret.success.elems)
                 # InSeq(repos.elems[k], ret.failed.elems)

Occurrences(x, q) == Cardinality({ k \in 1 .. Len(q) : q[k] = x })

\* C2 (amended): when AddCodeownersToReposWithPrefix returns, the two lists
\* have M entries together and hold every discovered name exactly as many
\* times as discovery returned it; a name that discovery returned once is in
\* exactly one of the two lists.
C2_Partition ==
    (BatchDone /\ method = "codeowners") =>
        /\ ret.err = NilErr
        /\ SliceLen(ret.success) + SliceLen(ret.failed) = M
        /\ BagOfSeq(ret.success.elems) (+) BagOfSeq(ret.failed.elems)
              = BagOfSeq(repos.elems)
        /\ \A k \in 1 .. M :
             Occurrences(repos.elems[k], repos.elems) = 1 =>
                 InSeq(repos.elems[k], ret.success.elems)
                     # InSeq(repos.elems[k], ret.failed.elems)

\* three distinct-or-not names, some written and some not
C2_Witness ==
    /\ BatchDone
    /\ method = "codeowners"
    /\ M = 3
    /\ SliceLen(ret.success) = 2
    /\ SliceLen(ret.failed) = 1
    /\ \E k \in 1 .. M : Occurrences(repos.elems[k], repos.elems) = 1

\* C3: when GetIssueStatsForReposWithPrefix returns after K of its M
\* operations failed, the error is nil and the result has M-K entries: the
\* statistics of the operations that succeeded, each once, and nothing else.
C3_PolicyA ==
    (BatchDone /\ method = "stats") =>
        /\ ret.err = NilErr
        /\ SliceLen(ret.stats) = M - NumFailed
        /\ BagOfSeq(ret.stats.elems)
              = BagOfSeq(MapStats(SelectSeq(workers, Succeeded)))

C3_Witness ==
    /\ BatchDone
    /\ method = "stats"
    /\ M = 3
    /\ NumFailed = 2
    /\ SliceLen(ret.stats) = 1

\* what a run that handles the repositories one after the other, in input
\* order, returns
SerialStats == MapStats(SelectSeq(workers, Succeeded))
SerialSuccess == MapName(SelectSeq(workers, Succeeded))
SerialFailed == MapName(SelectSeq(workers, Failed))

\* C4: for the outcomes the M operations had, a batch call returns the same
\* multiset of outcomes as the serial run, whatever maxConcurrency is.
C4_SameAsSerial ==
    BatchDone =>
        /\ method = "stats" =>
             BagOfSeq(ret.stats.elems) = BagOfSeq(SerialStats)
        /\ method = "codeowners" =>
             /\ BagOfSeq(ret.success.elems) = BagOfSeq(SerialSuccess)
             /\ BagOfSeq(ret.failed.elems) = BagOfSeq(SerialFailed)

\* a concurrent run returned the serial run's names in another order
C4_Witness ==
    /\ BatchDone
    /\ method = "codeowners"
    /\ maxConcurrency >= 2
    /\ M > maxConcurrency
    /\ ret.success.elems # SerialSuccess
    /\ BagOfSeq(ret.success.elems) = BagOfSeq(SerialSuccess)

\* C5: the goroutine launched for position i of the discovered list runs the
\* operation once, with the name at position i; no other goroutine exists,
\* and when the batch returns there are exactly M of them.
C5_OnePerPosition ==
    /\ Len(workers) <= M
    /\ \A i \in 1 .. Len(workers) :
         /\ workers[i].repoName = repos.elems[i]
         /\ workers[i].calls = (IF workers[i].st = "started" THEN 0 ELSE 1)
    /\ (pc \in {"collect", "returned"} /\ M > 0) => Len(workers) = M
    /\ BatchDone => \A i \in 1 .. M : workers[i].calls = 1

C5_Witness ==
    /\ BatchDone
    /\ M = 3
    /\ repos.elems[1] # repos.elems[3]
    /\ \A i \in 1 .. M : workers[i].calls = 1

\* the slots taken and not yet given back: one per live goroutine, and one
\* for the dispatch loop between its acquire and its go statement
Held == InFlight + (IF pc = "go" THEN 1 ELSE 0)

AllExited == Len(workers) = M /\ \A i \in 1 .. M : workers[i].st = "exited"

\* C6: the semaphore holds exactly one token per goroutine that is launched
\* (or about to be) and has not returned, so a goroutine has its slot while
\* its operation runs and none once it has returned, whether the operation
\* succeeded or failed; when all M goroutines have returned no slot is taken.
C6_SlotsReleased ==
    /\ sem = Held
    /\ AllExited => sem = 0

\* all operations are over, some failed, and no slot is taken
C6_Witness ==
    /\ M = 3
    /\ maxConcurrency = 1
    /\ AllExited
    /\ NumFailed >= 1
    /\ sem = 0

\* the operation of position i is over: its result is sent
Completed(i) == i <= Len(workers) /\ workers[i].st \in {"deferred", "exited"}

AllCompleted == Len(workers) = M /\ \A i \in 1 .. M : Completed(i)

StartsWith(name, prefix) ==
    /\ Len(prefix) <= Len(name)
    /\ SubSeq(name, 1, Len(prefix)) = prefix

MatchesDiscPrefix(name) == StartsWith(name, disc.prefix)

\* C10: a discovery that returns no error returns the names of all pages
\* that start with the prefix, in upstream order, and no other name.
C10_DiscoveryExact ==
    (disc.pc = "returned" /\ disc.out.err = NilErr) =>
        disc.out.repos.elems = SelectSeq(Flatten(disc.up.pages), MatchesDiscPrefix)

\* two pages, a match on each, and a name that differs from the prefix by
\* case only
C10_Witness ==
    /\ disc.pc = "returned"
    /\ disc.out.err = NilErr
    /\ ~disc.isUser
    /\ disc.prefix = <<"t">>
    /\ disc.up.pages = << << <<"T", "a">>, <<"t", "a">> >>, << <<"t", "a">> >> >>
    /\ disc.out.repos.elems = << <<"t", "a">>, <<"t", "a">> >>

\* C11: with the empty prefix a discovery that returns no error returns every
\* repository of the upstream listing, for a user and for an organization.
C11_EmptyPrefixAll ==
    (disc.pc = "returned" /\ disc.out.err = NilErr /\ disc.prefix = <<>>) =>
        /\ disc.out.repos.elems = Flatten(disc.up.pages)
        /\ SliceLen(disc.out.repos) = Len(Flatten(disc.up.pages))

\* a user's listing of two pages with names that share no prefix
C11_Witness ==
    /\ disc.pc = "returned"
    /\ disc.isUser
    /\ disc.prefix = <<>>
    /\ disc.up.pages = << << <<"T", "a">> >>, << <<"t", "a">>, <<"T", "a">> >> >>
    /\ disc.out.err = NilErr
    /\ SliceLen(disc.out.repos) = 3

\* the page number sent for upstream page p (the first page is asked for
\* with the zero value)
PageArg(p) == IF p = 1 THEN 0 ELSE p

\* C12: when the request for a page fails, discovery returns an error and a
\* nil list, whatever the earlier pages held, and the failing page was asked
\* for once, as the last request.
C12_PageFailureFatal ==
    (disc.pc = "returned" /\ disc.up.failAt # 0) =>
        /\ disc.out.err # NilErr
        /\ disc.out.repos = NilSlice
        /\ Len(disc.out.requested) = disc.up.failAt
        /\ \A k \in 1 .. Len(disc.out.requested) :
             disc.out.requested[k] = PageArg(k)

\* the second page fails after a first page with a match
C12_Witness ==
    /\ disc.pc = "returned"
    /\ disc.isUser
    /\ disc.up.failAt = 2
    /\ disc.prefix = <<"t">>
    /\ disc.up.pages[1] = << <<"t", "a">> >>
    /\ disc.out.err # NilErr
    /\ disc.out.repos = NilSlice

\* the value GetIssueStatsForRepo hands back once it is done
IssReturned ==
    [stats |-> IF iss.isnil THEN NoStats ELSE iss.stats,
     isnil |-> iss.isnil, err |-> iss.err]

\* the steps of GetIssueStatsForRepo end in the value the batch model uses
IssStepsAgree ==
    iss.pc = "done" => IssReturned = GetIssueStatsForRepo(iss.up, Owner, iss.repoName)

\* the counters are live between the allocation of stats and a return of it
IssCounting == iss.pc \in {"list", "count"} \/ (iss.pc = "done" /\ ~iss.isnil)

\* C13: at every step of counting the total is the sum of the open and the
\* closed counter, and stepping over an entry with a pull-request linkage
\* leaves all three counters as they were.
C13_TotalIsSum ==
    /\ [](IssCounting =>
            iss.stats.TotalIssues = iss.stats.OpenIssues + iss.stats.ClosedIssues)
    /\ [][(iss.pc = "count" /\ iss.issues # <<>> /\ Head(iss.issues).pr)
            => iss'.stats = iss.stats]_vars

\* a page of one open issue and one pull request has been counted
C13_Witness ==
    /\ iss.pc = "count"
    /\ iss.page = 0
    /\ iss.up.pages[1] = <<Issue("open", FALSE), Issue("closed", TRUE)>>
    /\ iss.issues = <<>>
    /\ iss.stats.TotalIssues = 1
    /\ iss.stats.OpenIssues = 1
    /\ iss.stats.ClosedIssues = 0

\* every entry the upstream holds for the repository, in page order
AllIssues == Flatten(iss.up.pages)

NonPR == { k \in 1 .. Len(AllIssues) : ~AllIssues[k].pr }
OpenNonPR == { k \in NonPR : AllIssues[k].state = "open" }
OtherNonPR == { k \in NonPR : AllIssues[k].state # "open" }

\* C14: a call that returns without error returns as total the number of
\* entries without a pull-request linkage, as open the number of those whose
\* state is exactly "open", and as closed the number of those with any
\* other state ("Open" and the empty state included).
C14_Counts ==
    (iss.pc = "done" /\ iss.err = NilErr) =>
        /\ ~IssReturned.isnil
        /\ IssReturned.stats.TotalIssues = Cardinality(NonPR)
        /\ IssReturned.stats.OpenIssues = Cardinality(OpenNonPR)
        /\ IssReturned.stats.ClosedIssues = Cardinality(OtherNonPR)

\* the list open, closed, open, closed pull request gives 3, 2 and 1
C14_Witness ==
    /\ iss.pc = "done"
    /\ iss.err = NilErr
    /\ AllIssues = <<Issue("open", FALSE), Issue("closed", FALSE),
                     Issue("open", FALSE), Issue("closed", TRUE)>>
    /\ IssReturned.stats.TotalIssues = 3
    /\ IssReturned.stats.OpenIssues = 2
    /\ IssReturned.stats.ClosedIssues = 1

\* a list with the states "Open" and "" counts both as closed
C14_WitnessOtherStates ==
    /\ iss.pc = "done"
    /\ iss.err = NilErr
    /\ AllIssues = <<Issue("Open", FALSE), Issue("", FALSE), Issue("open", FALSE)>>
    /\ IssReturned.stats.OpenIssues = 1
    /\ IssReturned.stats.ClosedIssues = 2

\* C15: when the lookup of the repository fails the call returns an error
\* and a nil result, and it has asked for no issue page.
C15_LookupFailureIsError ==
    (iss.pc = "done" /\ ~iss.up.exists) =>
        /\ IssReturned.err # NilErr
        /\ IssReturned.isnil
        /\ iss.gets = 1
        /\ iss.lists = <<>>

\* the lookup of a repository the upstream does not have has failed
C15_Witness ==
    /\ iss.pc = "done"
    /\ ~iss.up.exists
    /\ iss.gets = 1
    /\ IssReturned.isnil
    /\ Head(IssReturned.err).fmt = "failed to get repository %s/%s"

\* the steps of CreateOrUpdateFile end in the value the batch model uses
FileStepsAgree ==
    fil.pc = "done" =>
        LET r == CreateOrUpdateFile(fil.up, Owner, fil.repoName, CodeownersPath)
        IN /\ fil.err = r.err
           /\ Len(fil.writes) = Len(r.writes)
           /\ \A k \in 1 .. Len(r.writes) : fil.writes[k].sha = r.writes[k].sha
           /\ r.committed <=> fil.commits = 1

\* C16: when the read answers not-found the call goes on to the write, and
\* it returns after exactly one write, which carries no SHA.
C16_NotFoundCreates ==
    fil.up.read = "notfound" =>
        /\ fil.pc = "write" => (fil.sha = <<>> /\ fil.writes = <<>>)
        /\ fil.pc = "done" => (Len(fil.writes) = 1 /\ fil.writes[1].sha = <<>>)

\* a create has been sent after a 404 on the read
C16_Witness ==
    /\ fil.pc = "done"
    /\ fil.up.read = "notfound"
    /\ fil.reads = 1
    /\ Len(fil.writes) = 1
    /\ fil.writes[1].sha = <<>>
    /\ fil.writes[1].path = CodeownersPath

\* C17: a write sent after a successful read carries the SHA that read
\* returned, and no write carries a SHA other than that one.
C17_WriteCarriesReadSha ==
    /\ \A k \in 1 .. Len(fil.writes) :
         \/ fil.writes[k].sha = <<>>
         \/ fil.reads = 1 /\ fil.writes[k].sha = GetContents(fil.up).SHA
    /\ (fil.pc = "done" /\ fil.up.read = "found") =>
         (Len(fil.writes) = 1 /\ fil.writes[1].sha = <<fil.up.sha>>)

\* an update with the SHA "s2" of the file that was read
C17_Witness ==
    /\ fil.pc = "done"
    /\ fil.up.read = "found"
    /\ fil.up.sha = "s2"
    /\ Len(fil.writes) = 1
    /\ fil.writes[1].sha = <<"s2">>

\* C18: when the read fails with anything but not-found, with or without a
\* response, the call returns an error wrapping the read's error and sends
\* no write.
C18_OtherReadErrorAborts ==
    fil.up.read \in {"error", "noresp"} =>
        /\ fil.writes = <<>>
        /\ fil.pc # "write"
        /\ fil.pc = "done" =>
             /\ fil.err # NilErr
             /\ Head(fil.err).fmt = "failed to check if file exists %s/%s:%s"
             /\ Tail(fil.err) = GetContents(fil.up).err

\* a read that failed without any response has ended the call
C18_Witness ==
    /\ fil.pc = "done"
    /\ fil.up.read = "noresp"
    /\ fil.reads = 1
    /\ fil.writes = <<>>
    /\ fil.err # NilErr

\* C19: a call sends at most one read and at most one write, and a failed
\* write ends the call with the write's error.
C19_OneWriteNoRetry ==
    /\ fil.reads <= 1
    /\ Len(fil.writes) <= 1
    /\ (Len(fil.writes) = 1 /\ ~fil.up.writeOk) =>
         (fil.pc = "done" /\ fil.err = WriteFailed /\ fil.commits = 0)

\* the one write of the call has failed
C19_Witness ==
    /\ fil.pc = "done"
    /\ ~fil.up.writeOk
    /\ fil.reads = 1
    /\ Len(fil.writes) = 1
    /\ Head(fil.err).fmt = "failed to create/update file %s/%s:%s"

\* the upstream committed the file for this goroutine's CreateOrUpdateFile
Committed(wk) == wk.res.committed
NotCommitted(wk) == ~wk.res.committed

\* C20: a CreateOrUpdateFile that has returned returned nil exactly when
\* its write was committed, and AddCodeownersToReposWithPrefix reports as
\* successes the repositories of the operations that committed and as
\* failures the repositories of those that did not; a repository listed
\* once is reported as success iff its file was committed and as failure
\* iff it was not.
C20_NoPartialOutcome ==
    /\ method = "codeowners" =>
         \A i \in 1 .. Len(workers) :
            workers[i].st # "started" =>
               (Succeeded(workers[i]) <=> Committed(workers[i]))
    /\ (BatchDone /\ method = "codeowners") =>
         /\ BagOfSeq(ret.success.elems)
               = BagOfSeq(MapName(SelectSeq(workers, Committed)))
         /\ BagOfSeq(ret.failed.elems)
               = BagOfSeq(MapName(SelectSeq(workers, NotCommitted)))
         /\ \A i \in 1 .. M :
               Occurrences(repos.elems[i], repos.elems) = 1 =>
                  /\ InSeq(repos.elems[i], ret.success.elems)
                        <=> Committed(workers[i])
                  /\ InSeq(repos.elems[i], ret.failed.elems)
                        <=> NotCommitted(workers[i])

\* a batch of two repositories: one file committed, one write refused
C20_Witness ==
    /\ BatchDone
    /\ method = "codeowners"
    /\ M = 2
    /\ repos.elems[1] # repos.elems[2]
    /\ Committed(workers[1])
    /\ NotCommitted(workers[2])
    /\ ret.success.elems = <<repos.elems[1]>>
    /\ ret.failed.elems = <<repos.elems[2]>>

\* C25: every batch call returns, whatever M, maxConcurrency and the
\* outcomes are: the dispatch loop gets its slot each time although the
\* collector receives nothing before the last goroutine is launched.
C25_Terminates ==
    /\ <>(pc = "returned")
    /\ [](received > 0 => Len(workers) = M)

\* a batch of three behind one slot has returned, with failures in it
C25_Witness ==
    /\ pc = "returned"
    /\ method = "stats"
    /\ M = 3
    /\ maxConcurrency = 1
    /\ NumFailed = 1
    /\ received = 3

\* the channel the goroutine at position i is about to send on
SendChan(i) ==
    IF method = "stats"
    THEN (IF Failed(workers[i]) THEN errChan ELSE statsChan)
    ELSE (IF Failed(workers[i]) THEN failChan ELSE successChan)

\* C26: no result channel ever holds more than M messages, and whenever a
\* goroutine is about to send, the channel it sends on has room, so the send
\* does not wait for the collector.
C26_SendNeverBlocks ==
    /\ Len(statsChan) <= M
    /\ Len(errChan) <= M
    /\ Len(successChan) <= M
    /\ Len(failChan) <= M
    /\ \A i \in 1 .. Len(workers) :
         workers[i].st = "run" => Len(SendChan(i)) < ChanCap

\* all three operations have sent and the collector has read nothing
C26_Witness ==
    /\ M = 3
    /\ received = 0
    /\ \A i \in 1 .. M : Completed(i)
    /\ Len(statsChan) + Len(errChan) + Len(successChan) + Len(failChan) = 3

\* C27: the collector never receives more than M messages, and when the
\* batch call returns it has received exactly M and all result channels are
\* empty.
C27_DrainsExactlyM ==
    /\ received <= M
    /\ BatchDone =>
         /\ received = M
         /\ Len(statsChan) = 0
         /\ Len(errChan) = 0
         /\ Len(successChan) = 0
         /\ Len(failChan) = 0

\* a codeowners batch of three has returned with names in both lists
C27_Witness ==
    /\ BatchDone
    /\ method = "codeowners"
    /\ M = 3
    /\ received = 3
    /\ SliceLen(ret.success) = 2
    /\ SliceLen(ret.failed) = 1
    /\ Len(successChan) + Len(failChan) = 0

\* the operations that have sent their result, by outcome
SentOk == Cardinality({ i \in 1 .. Len(workers) :
                          Completed(i) /\ Succeeded(workers[i]) })
SentFailed == Cardinality({ i \in 1 .. Len(workers) :
                              Completed(i) /\ Failed(workers[i]) })

\* the messages that went through the success and the failure channel:
\* those still in the channel and those the collector has taken out
ThroughSuccess ==
    IF method = "stats" THEN Len(statsChan) + SliceLen(allStats)
    ELSE Len(successChan) + SliceLen(successRepos)
ThroughFailure ==
    IF method = "stats" THEN Len(errChan) + (received - SliceLen(allStats))
    ELSE Len(failChan) + SliceLen(failedRepos)

\* a step that puts a message into a result channel
Sends == Len(statsChan') + Len(errChan') + Len(successChan') + Len(failChan')
            > Len(statsChan) + Len(errChan) + Len(successChan) + Len(failChan)

\* the step is the one send of the goroutine at position i, on the failure
\* channel when its operation failed and on the success channel otherwise
TheSendOf(i) ==
    /\ workers[i].st = "run"
    /\ workers'[i].st = "deferred"
    /\ \A j \in (1 .. Len(workers)) \ {i} : workers'[j] = workers[j]
    /\ IF Failed(workers[i])
       THEN /\ Len(errChan') + Len(failChan') = Len(errChan) + Len(failChan) + 1
            /\ statsChan' = statsChan /\ successChan' = successChan
       ELSE /\ Len(statsChan') + Len(successChan')
                 = Len(statsChan) + Len(successChan) + 1
            /\ errChan' = errChan /\ failChan' = failChan

\* C28: every message is put into a result channel by the step in which one
\* goroutine passes from its operation to its return, the failure channel if
\* its operation returned an error and the success channel otherwise; so the
\* success channel has carried one message per operation that ended without
\* error and the failure channel one per operation that ended with one.
C28_OneMessageEach ==
    /\ [][Sends => \E i \in 1 .. Len(workers) : TheSendOf(i)]_vars
    /\ [](ThroughSuccess = SentOk /\ ThroughFailure = SentFailed)

\* three operations are over, one of them failed, and each channel has
\* carried its share
C28_Witness ==
    /\ method = "stats"
    /\ M = 3
    /\ AllCompleted
    /\ SentFailed = 1
    /\ ThroughFailure = 1
    /\ ThroughSuccess = 2

\* a step that writes one of the result collections
WritesCollections ==
    \/ allStats' # allStats
    \/ successRepos' # successRepos
    \/ failedRepos' # failedRepos

\* a step that writes the outcome value of the operation at position i
WritesOutcome(i) ==
    /\ i <= Len(workers')
    /\ workers'[i].res # workers[i].res

\* C29: the result collections are written only by the collector, in a step
\* that touches no goroutine, and the outcome of an operation is written only
\* by its own goroutine, before that goroutine sends it; no step writes the
\* outcomes of two operations.
C29_NoSharedWrites ==
    /\ [][WritesCollections =>
            (pc = "collect" /\ received' = received + 1 /\ workers' = workers)]_vars
    /\ [][\A i \in 1 .. Len(workers) :
            WritesOutcome(i) =>
               /\ workers[i].st = "started"
               /\ workers'[i].st = "run"
               /\ \A j \in (1 .. Len(workers)) \ {i} : workers'[j] = workers[j]
               /\ ~WritesCollections]_vars

\* two operations hold their own outcomes at the same time, one a failure
C29_Witness ==
    /\ method = "stats"
    /\ Len(workers) >= 2
    /\ workers[1].st = "run"
    /\ workers[2].st = "run"
    /\ Failed(workers[1])
    /\ Succeeded(workers[2])

\* the file at the path is not the one this call read
ChangedSinceRead == fil.cur # GetContents(fil.up).SHA

\* C30: when the file changes between the read and the write, the call still
\* reads once and writes once, the write carries the marker of the read,
\* which is no longer the upstream's, and the call returns what the upstream
\* answers to that write.
C30_StaleMarkerUnhandled ==
    (fil.pc = "done" /\ ChangedSinceRead) =>
        /\ fil.reads = 1
        /\ Len(fil.writes) = 1
        /\ fil.writes[1].sha = GetContents(fil.up).SHA
        /\ fil.writes[1].sha # fil.cur
        /\ fil.err = (IF fil.up.writeOk THEN NilErr ELSE WriteFailed)

\* the file read with "s1" is at "s2" when the write is sent with "s1", and
\* the upstream refuses the write
C30_Witness ==
    /\ fil.pc = "done"
    /\ fil.up.read = "found"
    /\ fil.up.sha = "s1"
    /\ fil.cur = <<"s2">>
    /\ fil.writes = << [WriteCall EXCEPT !.sha = <<"s1">>] >>
    /\ fil.err = WriteFailed

\* the command line names exactly one owner
ExactlyOneOwner == (cmd.flags.org # "") # (cmd.flags.username # "")

\* everything else on the command line and around it is in order
RestValid ==
    /\ ~(cmd.flags.repoName # "" /\ cmd.flags.repoPrefix # "")
    /\ cmd.name = "codeowners" =>
         (cmd.flags.fileSet /\ cmd.flags.codeownersFile # "" /\ cmd.fileOk)

TokenGiven == cmd.flags.token # "" \/ cmd.env # ""

OwnerErrors == {ErrNeitherOwner, ErrBothOwners}

InvalidInput ==
    \/ ~ExactlyOneOwner
    \/ cmd.flags.repoName # "" /\ cmd.flags.repoPrefix # ""
    \/ ~TokenGiven
    \/ cmd.name = "codeowners" /\ cmd.flags.codeownersFile = ""

ValidationErrors ==
    {ErrFlagNotSet, ErrNeitherOwner, ErrBothOwners, ErrBothRepos, ErrNoFile,
     ErrNoToken}

C23_EmptyTokenProceeds ==
    (cmd.pc = "done" /\ ExactlyOneOwner /\ RestValid /\ ~TokenGiven) =>
        /\ cmd.err # ErrNoToken
        /\ cmd.client = "unauth"
        /\ cmd.calls # <<>>

\* the report is in order: no repository with issues before one without,
\* and among those with issues no smaller total before a larger one
InReportOrder(q) ==
    \A i, j \in 1 .. Len(q) :
       i < j =>
          /\ q[j].TotalIssues = 0 => q[i].TotalIssues = 0
          /\ (q[i].TotalIssues > 0 /\ q[j].TotalIssues > 0) =>
                q[i].TotalIssues >= q[j].TotalIssues

\* C24: the report of a batch shows the statistics the batch returned, all
\* of them and nothing else, with the repositories without issues first and
\* those with issues after them by falling total, whatever order the batch
\* returned them in.
C24_SortedReport ==
    (cmd.pc = "done" /\ cmd.batch # <<>>) =>
        /\ InReportOrder(cmd.out)
        /\ BagOfSeq(cmd.out) = BagOfSeq(cmd.batch)

\* a batch that returned totals 1, 0, 3 is shown as 0, 3, 1
C24_Witness ==
    /\ cmd.pc = "done"
    /\ Len(cmd.batch) = 3
    /\ cmd.batch[1].TotalIssues = 1
    /\ cmd.batch[2].TotalIssues = 0
    /\ cmd.batch[3].TotalIssues = 3
    /\ cmd.out = <<cmd.batch[2], cmd.batch[3], cmd.batch[1]>>

\* the errors discovery returns
DiscoveryFmts ==
    {"failed to list repositories for user %s",
     "failed to list repositories for org %s"}

\* C31: a batch call that returns an error returns the error of its
\* discovery and nil results, and it has launched no goroutine, taken no
\* slot and received nothing.
C31_DiscoveryFailureAborts ==
    (pc = "returned" /\ ret.err # NilErr) =>
        /\ Head(ret.err).fmt \in DiscoveryFmts
        /\ ret.stats = NilSlice
        /\ ret.success = NilSlice
        /\ ret.failed = NilSlice
        /\ workers = <<>>
        /\ repos = NilSlice
        /\ sem = 0
        /\ received = 0

\* the codeowners batch of an organization ended on its discovery error
C31_Witness ==
    /\ pc = "returned"
    /\ method = "codeowners"
    /\ ret.err # NilErr
    /\ Head(ret.err).fmt = "failed to list repositories for org %s"
    /\ ret.success = NilSlice
    /\ workers = <<>>

\* the error discovery returns names the owner
NamesOwner(err) ==
    \E k \in 1 .. Len(err) : \E a \in 1 .. Len(err[k].args) : err[k].args[a] = Owner

\* what discovery would have returned had the request for page f failed
ErrFailingAt(f) ==
    GetRepositoriesWithPrefix([disc.up EXCEPT !.failAt = f], Owner,
                              disc.prefix, disc.isUser).err

\* C39: the error of a discovery that failed names the owner and the page
\* whose listing failed: it differs from the error a failure of any other
\* page of the same listing would have given.
C39_ErrorNamesOwnerAndPage ==
    (disc.pc = "returned" /\ disc.up.failAt # 0) =>
        /\ NamesOwner(disc.out.err)
        /\ \A f \in 1 .. Len(disc.up.pages) :
             f # disc.up.failAt => ErrFailingAt(f) # disc.out.err

\* the requests req follow the next-page values next of their responses:
\* the first asks for page 0, each later one for the non-zero page the
\* response before it named
FollowsNextPage(req, next) ==
    /\ req # <<>>
    /\ req[1] = 0
    /\ \A k \in 2 .. Len(req) : next[k - 1] # 0 /\ req[k] = next[k - 1]

\* the next-page values of the responses to the issue requests made so far
IssNext == [k \in 1 .. Len(iss.lists) |-> ListByRepo(iss.up, iss.lists[k]).NextPage]

\* the same for a call of discovery, from its first request to its return
DiscFollowsNextPage(up, isUser) ==
    LET out == GetRepositoriesWithPrefix(up, Owner, <<>>, isUser)
        next == [k \in 1 .. Len(out.requested) |->
                   ListRepos(up, out.requested[k]).NextPage]
    IN /\ FollowsNextPage(out.requested, next)
       /\ next[Len(next)] = 0
       /\ out.err = NilErr => Len(out.requested) = Len(up.pages)

\* the steps a call of GetIssueStatsForRepo has left at most: PageSize + 2
\* for every page not yet asked for, and those left on the page at hand
IssStepsLeft ==
    LET perPage == PageSize + 2
        pagesLeft == MaxPages - Len(iss.lists)
    IN CASE iss.pc = "idle" -> perPage * MaxPages + 2
         [] iss.pc = "get" -> perPage * MaxPages + 1
         [] iss.pc = "list" -> perPage * pagesLeft
         [] iss.pc = "count" -> perPage * pagesLeft + Len(iss.issues) + 1
         [] OTHER -> 0

\* C32: the issue loop and both discovery loops ask for page 0 first and then
\* for exactly the page each response named, they return without error only
\* on a response whose next page is 0, having asked for every page the
\* upstream has however many there are, and a call always returns: until it
\* has, a step is possible and every step brings the return nearer.
C32_PagesFollowNextPage ==
    /\ [](iss.lists # <<>> => FollowsNextPage(iss.lists, IssNext))
    /\ []((iss.pc = "done" /\ iss.err = NilErr) =>
             /\ IssNext[Len(iss.lists)] = 0
             /\ Len(iss.lists) = Len(iss.up.pages))
    /\ [](iss.pc = "idle" =>
             \A up \in Upstreams, isUser \in BOOLEAN : DiscFollowsNextPage(up, isUser))
    /\ [](iss.pc # "done" => ENABLED NextStats)
    /\ [][IssStepsLeft' < IssStepsLeft]_vars

\* a call over two pages has asked for page 0 and then for page 2
C32_Witness ==
    /\ iss.pc = "done"
    /\ iss.err = NilErr
    /\ Len(iss.up.pages) = 2
    /\ iss.lists = <<0, 2>>

\* the issues of the pages received so far, in the order received
IssListed ==
    Flatten([k \in 1 .. Len(iss.lists) |-> ListByRepo(iss.up, iss.lists[k]).issues])

\* those of them the loop over the page has already stepped over
IssCounted == SubSeq(IssListed, 1, Len(IssListed) - Len(iss.issues))

\* the three counters over a list of issues
CountsOf(list) ==
    LET nonPR == { k \in 1 .. Len(list) : ~list[k].pr }
        open == { k \in nonPR : list[k].state = "open" }
    IN [TotalIssues |-> Cardinality(nonPR), OpenIssues |-> Cardinality(open),
        ClosedIssues |-> Cardinality(nonPR \ open)]

IssCounters ==
    [TotalIssues |-> iss.stats.TotalIssues, OpenIssues |-> iss.stats.OpenIssues,
     ClosedIssues |-> iss.stats.ClosedIssues]

\* C33: while pages are being counted the counters are the counts over all
\* the issues stepped over so far, those of earlier pages included, and a
\* call that returns without error has received every page of the upstream
\* exactly once and returns the counts over their concatenation.
C33_AccumulatesOverPages ==
    /\ iss.pc \in {"list", "count"} => IssCounters = CountsOf(IssCounted)
    /\ (iss.pc = "done" /\ iss.err = NilErr) =>
          /\ IssCounters = CountsOf(Flatten(iss.up.pages))
          /\ \A p \in 1 .. Len(iss.up.pages) :
               Cardinality({ k \in 1 .. Len(iss.lists) :
                               iss.lists[k] = PageArg(p) }) = 1

\* two pages, issues on both, and the counts of the second added to those of
\* the first
C33_Witness ==
    /\ iss.pc = "done"
    /\ iss.err = NilErr
    /\ iss.up.pages = << <<Issue("open", FALSE), Issue("closed", FALSE)>>,
                         <<Issue("open", FALSE)>> >>
    /\ iss.stats.TotalIssues = 3
    /\ iss.stats.OpenIssues = 2
    /\ iss.stats.ClosedIssues = 1

\* the operation of the i-th goroutine failed on a page of issues
ListFailed(i) ==
    /\ method = "stats"
    /\ workers[i].st # "started"
    /\ workers[i].res.err # NilErr
    /\ Head(workers[i].res.err).fmt = "failed to list issues for %s/%s"

\* C34: GetIssueStatsForRepo answers a failed page of issues, whichever page
\* it is, with an error and nil stats; in a batch the repository whose
\* listing failed is left out of the result, every other repository still
\* has its one operation, the successful ones are all returned and the batch
\* returns no error.
C34_ListFailureFatalForRepoOnly ==
    /\ pc = "new" =>
          \A up \in StatsUpstreams : (up.exists /\ up.failAt # 0) =>
              LET r == GetIssueStatsForRepo(up, Owner, <<"t", "a">>) IN
              r.err # NilErr /\ r.isnil /\ r.stats = NoStats
    /\ \A i \in 1 .. Len(workers) : ListFailed(i) =>
          workers[i].res.isnil /\ workers[i].res.stats = NoStats
    /\ (BatchDone /\ \E i \in 1 .. Len(workers) : ListFailed(i)) =>
          /\ ret.err = NilErr
          /\ Len(workers) = M
          /\ \A j \in 1 .. M : Completed(j) /\ workers[j].calls = 1
          /\ BagOfSeq(ret.stats.elems) = BagOfSeq(SerialStats)
          /\ Len(ret.stats.elems) = M - NumFailed

\* the issue listing of the first of three repositories failed on its second
\* page and the statistics of the other two were returned
C34_Witness ==
    /\ BatchDone
    /\ M = 3
    /\ ListFailed(1)
    /\ workers[1].res.isnil
    /\ Succeeded(workers[2])
    /\ Succeeded(workers[3])
    /\ Len(ret.stats.elems) = 2
    /\ ret.err = NilErr

\* C35: a request for a page of issues is made only after the one lookup of
\* the repository has been made and has found it; a call whose lookup failed
\* makes no such request.
C35_LookupBeforeListing ==
    /\ [](iss.gets <= 1)
    /\ [](iss.lists # <<>> => (iss.gets = 1 /\ iss.up.exists))
    /\ [][iss'.lists # iss.lists =>
            /\ iss.gets = 1
            /\ iss.up.exists
            /\ iss.pc = "list"
            /\ iss'.gets = iss.gets]_vars

\* the first page of issues has been asked for after a lookup that found the
\* repository
C35_Witness ==
    /\ iss.pc = "count"
    /\ iss.up.exists
    /\ iss.gets = 1
    /\ iss.lists = <<0>>

\* C36: with maxConcurrency = 1, when the goroutine of a position is about to
\* be launched or has been, the goroutines of all earlier positions have sent
\* their result and returned, and the lists a batch returns are those of the
\* serial run, in input order.
C36_SerialAtOne ==
    maxConcurrency = 1 =>
        /\ \A i \in 1 .. Len(workers) :
             (i < Len(workers) \/ pc = "go") => workers[i].st = "exited"
        /\ BatchDone =>
             /\ method = "stats" => ret.stats.elems = SerialStats
             /\ method = "codeowners" =>
                  /\ ret.success.elems = SerialSuccess
                  /\ ret.failed.elems = SerialFailed

\* three upserts run one at a time, the second one failing
C36_Witness ==
    /\ maxConcurrency = 1
    /\ BatchDone
    /\ method = "codeowners"
    /\ M = 3
    /\ Succeeded(workers[1])
    /\ Failed(workers[2])
    /\ Succeeded(workers[3])
    /\ ret.success.elems = <<repos.elems[1], repos.elems[3]>>
    /\ ret.failed.elems = <<repos.elems[2]>>

\* with two slots the statistics of the second repository were returned
\* before those of the first
C36_ReorderedAtTwo ==
    /\ maxConcurrency = 2
    /\ BatchDone
    /\ method = "stats"
    /\ M = 2
    /\ Succeeded(workers[1])
    /\ Succeeded(workers[2])
    /\ workers[1].repoName # workers[2].repoName
    /\ ret.stats.elems = <<workers[2].res.stats, workers[1].res.stats>>

\* what the get-issue-count command makes of the value the batch returned
AfterBatch == handleMultipleRepos(ret.stats, ret.err # NilErr)

\* C37: a statistics batch in which every one of the M >= 1 operations failed
\* returns a nil slice and a nil error, the very value an empty discovery
\* returns, and the command given it ends without an error and without a
\* report, having logged that no repositories were found.
C37_AllFailedLooksEmpty ==
    (BatchDone /\ method = "stats" /\ NumFailed = M) =>
        /\ ret.stats = NilSlice
        /\ ret.err = NilErr
        /\ ret = StatsEmptyReturn
        /\ AfterBatch.pc = "done"
        /\ AfterBatch.err = ""
        /\ AfterBatch.out = <<>>
        /\ AfterBatch.log = <<NoReposMsg>>

\* the operations of all three repositories failed
C37_Witness ==
    /\ BatchDone
    /\ method = "stats"
    /\ M = 3
    /\ NumFailed = 3
    /\ ret = StatsEmptyReturn
    /\ AfterBatch.log = <<NoReposMsg>>

SingleOp == IF cmd.name = "get-issue-count" THEN "GetIssueStatsForRepo"
            ELSE "CreateOrUpdateFile"

BatchOp == IF cmd.name = "get-issue-count" THEN "GetIssueStatsForReposWithPrefix"
           ELSE "AddCodeownersToReposWithPrefix"

\* C38: a command that reaches the service makes one call.  With --repo it
\* is the per-repository operation on that repository, after which the
\* command is done with the error of the operation or none; without --repo it
\* is the batch operation (discovery and executor) with the prefix given, the
\* empty prefix when none was.
C38_RepoOrBatch ==
    /\ [](cmd.calls # <<>> =>
            /\ Len(cmd.calls) = 1
            /\ cmd.calls[1].owner = cmd.owner
            /\ IF cmd.flags.repoName # ""
               THEN /\ cmd.calls[1].op = SingleOp
                    /\ cmd.calls[1].repo = cmd.flags.repoName
                    /\ cmd.pc = "done"
                    /\ cmd.err \in {"", ErrService}
                    /\ cmd.name = "get-issue-count" =>
                         (cmd.err = ErrService <=> cmd.out = <<>>)
               ELSE /\ cmd.calls[1].op = BatchOp
                    /\ cmd.calls[1].repo = ""
                    /\ cmd.calls[1].prefix = cmd.flags.repoPrefix)
    /\ [][cmd'.calls # cmd.calls => cmd.pc = "handle" /\ cmd.calls = <<>>]_vars

\* get-issue-count --org --repo: the one operation failed and the command
\* ends with its error
C38_Witness ==
    /\ cmd.pc = "done"
    /\ cmd.name = "get-issue-count"
    /\ cmd.flags.repoName # ""
    /\ Len(cmd.calls) = 1
    /\ cmd.calls[1].op = "GetIssueStatsForRepo"
    /\ cmd.calls[1].repo = cmd.flags.repoName
    /\ cmd.err = ErrService

\* codeowners with neither --repo nor --repo-prefix: the batch over every
\* repository of the owner
C38_WitnessNoPrefix ==
    /\ cmd.pc = "done"
    /\ cmd.name = "codeowners"
    /\ cmd.flags.repoName = ""
    /\ cmd.flags.repoPrefix = ""
    /\ Len(cmd.calls) = 1
    /\ cmd.calls[1].op = "AddCodeownersToReposWithPrefix"
    /\ cmd.calls[1].prefix = ""

====
